---- MODULE Spec2Model ----
(***************************************************************************)
(* LewdArchive: the webhook handler (HandleWebhook / processEntry), the    *)
(* posts table used as the dedup store, the detached archive task          *)
(* (ArchiveService.DownloadContent), the Chibisafe settings cache          *)
(* (ChibisafeService.getSettings), the uploader, the archive paths and     *)
(* their cleanup, and MinifluxService.MarkEntryAsRead.                     *)
(*                                                                         *)
(* Spec          concurrent webhook requests and their processEntry calls. *)
(* SpecArchive   one webhook request and the archive tasks it launches.    *)
(* SpecSettings  concurrent uploadFile / getSettings calls on one          *)
(*               ChibisafeService.                                         *)
(* SpecUpload    one UploadFiles call and its uploadDirectoryFiles.        *)
(* SpecTask      one archive task after its download: upload, cleanup.     *)
(* SpecResolve   concurrent getOrCreateAlbum / getOrCreateTag calls.       *)
(* SpecCleanup   one cleanupDirectory call and its walk up the tree.       *)
(* SpecMark      one MarkEntryAsRead call, under weak fairness.            *)
(* SpecPath      SanitizeForPath and buildArchivePath on drawn arguments.  *)
(* SpecEntry     one processEntry call and the time it hands on.           *)
(* SpecSigned    one uploadFileS3 call.                                    *)
(* SpecBatch     one HandleWebhook call and its processEntry calls.        *)
(***************************************************************************)
EXTENDS Integers, Sequences, FiniteSets, TLC

\* ------------------------------------------------------------------ bounds
NumHandlers == 2      \* concurrent webhook requests
MaxBatch == 2         \* entries in one webhook payload
MaxFiles == 1         \* files the download tool may write for one entry
NumCallers == 2       \* goroutines calling uploadFile, hence getSettings
MaxCalls == 2         \* uploadFile calls made by one goroutine
MaxEntries == 3       \* entries of an archive directory handed to the uploader
NumResolvers == 2     \* goroutines resolving an album or tag name
MaxResolves == 2      \* resolutions made in all
MaxRegular == 2       \* regular files of the archive directory handed to cleanup
MaxSiblings == 1      \* directories of the tree that hold something of another post
MaxSubdirs == 1       \* subdirectories inside the archive directory handed to cleanup
MaxCleanups == 2      \* cleanupDirectory calls made on one archive directory
MaxTaskEntries == 2   \* entries of the directory one archive task uploads and cleans
MaxEntryID == 2       \* Miniflux entry identifiers
MaxName == 2          \* characters of an author name handed to SanitizeForPath
MaxTicks == 2         \* months the clock advances during one processEntry call

Handlers == 1..NumHandlers
Hashes == {"h1", "h2"}
Files == 1..MaxFiles
Callers == 1..NumCallers
Resolvers == 1..NumResolvers
\* at most one archive task per processEntry call
TaskIds == 1..(NumHandlers * MaxBatch)

\* http.StatusOK, written by HandleWebhook once the loop over the entries ended
StatusOK == 200

VARIABLES
  cfg,      \* configuration fixed at start-up: notifier, uploader, cleanup flag
  posts,    \* the posts table: the sequence of the hash column of every row
  hpc,      \* per request: where HandleWebhook / processEntry stands
  left,     \* per request: entries the loop of HandleWebhook has yet to finish
  todo,     \* per request: entries of the payload not yet handed to processEntry
  loc,      \* per request: record of the current (or last returned) processEntry call
  status,   \* per request: HTTP status written (0 = none yet)
  marks,    \* per hash: MarkEntryAsRead calls made for an entry of that hash
  notifs,   \* per hash: SendEmbed calls made for an entry of that hash
  tasks,    \* archive tasks (goroutines running DownloadContent), in launch order
  fs,       \* per hash: the archive directory of that entry on local storage
  cache,    \* ChibisafeService.useNetworkStorage: "nil", "true" or "false"
  gpc,      \* per caller: where its getSettings call stands
  gloc,     \* per caller: record of its current (or last) getSettings call
  gcalls,   \* per caller: getSettings calls started
  requests, \* GET /api/settings requests issued so far
  writes,   \* assignments made to useNetworkStorage so far
  sent,     \* per caller: the strategy run by each of its uploadFile calls, in order
  up,       \* one UploadFiles call: its arguments, loop position and log
  remote,   \* the albums (or the tags) of the remote asset service, in creation order
  rsv,      \* per resolver: its getOrCreateAlbum / getOrCreateTag call and past returns
  cln,      \* one cleanupDirectory call and the directories it works on
  mk,       \* one MinifluxService.MarkEntryAsRead call: its attempts and waits
  pf,       \* one call of buildArchivePath: its arguments and its result
  pe,       \* one processEntry call followed for the publish time of its entry
  s3,       \* one uploadFileS3 call: its requests and what the service stored
  hb        \* one HandleWebhook call: its payload and the call made for each entry

hvars == <<hpc, left, todo, loc, status>>
tvars == <<tasks, fs>>
\* what the request handlers and archive tasks own, what the settings cache
\* and its callers own, and what the operations followed on their own own
wvars == <<cfg, posts, hpc, left, todo, loc, status, marks, notifs, tasks, fs>>
cvars == <<cache, gpc, gloc, gcalls, requests, writes, sent>>
uvars == <<up>>
rvars == <<remote, rsv>>
yvars == <<pe, s3, hb>>
xvars == <<cln, mk, pf, yvars>>
ovars == <<uvars, rvars, xvars>>
\* the frame of the getSettings / uploadFile steps, and of the handler and task steps
pvars == <<wvars, ovars>>
svars == <<cvars, ovars>>
vars == <<cfg, posts, hpc, left, todo, loc, status, marks, notifs, tasks, fs,
          cache, gpc, gloc, gcalls, requests, writes, sent, up, remote, rsv,
          cln, mk, pf, pe, s3, hb>>

\* ------------------------------------------------------------ dedup store

\* SELECT EXISTS(SELECT 1 FROM posts WHERE hash = ?)
HashStored(store, h) == \E i \in 1..Len(store) : store[i] = h

\* a posts table without the UNIQUE constraint on hash
AnyHashAccepted(store, h) == TRUE

\* hash TEXT NOT NULL UNIQUE: an INSERT is accepted only for a hash not yet stored
UniqueHash(store, h) == ~HashStored(store, h)

\* INSERT INTO posts ...: the possible <<table afterwards, error>> pairs.
\* "unique" is the constraint violation, "io" any other database failure.
CreateOutcomes(store, h) ==
  IF UniqueHash(store, h)
    THEN {<<Append(store, h), "nil">>, <<store, "io">>}
    ELSE {<<store, "unique">>}

\* rows of the table holding hash h
Rows(h) == {i \in 1..Len(posts) : posts[i] = h}

\* ------------------------------------------------------ HandleWebhook loop

NoCall == [hash |-> "-", obs |-> "no", created |-> "no", mark |-> "no",
           task |-> 0, notif |-> "no", res |-> "none"]

NewCall(h) == [NoCall EXCEPT !.hash = h, !.res = "run"]

\* a loop that gives up on the batch at the first failing entry
AbortOnError(n, res) == IF res = "err" THEN 0 ELSE n - 1

\* for _, entry := range payload.Entries: an error is logged and the loop
\* continues; n entries were left before this one, n - 1 are left after it
AfterEntry(n, res) == n - 1

\* processEntry of request r returns res to the loop of HandleWebhook
Return(r, l, res) ==
  /\ loc' = [loc EXCEPT ![r] = [l EXCEPT !.res = res]]
  /\ left' = [left EXCEPT ![r] = AfterEntry(@, res)]
  /\ hpc' = [hpc EXCEPT ![r] = "loop"]

\* HandleWebhook decodes a new_entries payload of n entries and enters its
\* loop (a request refused or ignored before the loop calls processEntry for
\* no entry and is not followed here)
Receive(r) ==
  /\ hpc[r] = "idle"
  /\ \E n \in 0..MaxBatch :
       /\ left' = [left EXCEPT ![r] = n]
       /\ todo' = [todo EXCEPT ![r] = n]
  /\ hpc' = [hpc EXCEPT ![r] = "loop"]
  /\ UNCHANGED <<cfg, posts, loc, status, marks, notifs, tasks, fs, svars>>

\* w.WriteHeader(http.StatusOK) after the loop; the request's goroutine ends
Respond(r) ==
  /\ hpc[r] = "loop"
  /\ left[r] = 0
  /\ status' = [status EXCEPT ![r] = StatusOK]
  /\ hpc' = [hpc EXCEPT ![r] = "done"]
  /\ loc' = [loc EXCEPT ![r] = NoCall]
  /\ UNCHANGED <<cfg, posts, left, todo, marks, notifs, tasks, fs, svars>>

\* ------------------------------------------------------------ processEntry

\* a dedup check whose result is ignored
ExistsByHashIgnored(r) ==
  /\ hpc[r] = "loop"
  /\ left[r] > 0
  /\ todo' = [todo EXCEPT ![r] = @ - 1]
  /\ \E h \in Hashes, dbok \in BOOLEAN :
       IF ~dbok
         THEN Return(r, [NewCall(h) EXCEPT !.obs = "err"], "err")
         ELSE /\ loc' = [loc EXCEPT ![r] = [NewCall(h) EXCEPT !.obs = "absent"]]
              /\ hpc' = [hpc EXCEPT ![r] = "create"]
              /\ UNCHANGED left
  /\ UNCHANGED <<cfg, posts, status, marks, notifs, tasks, fs, svars>>

\* the loop calls processEntry for the next entry (hash h): ExistsByHash; a
\* query error is returned, an existing row ends the call with nil
ExistsByHash(r) ==
  /\ hpc[r] = "loop"
  /\ left[r] > 0
  /\ todo' = [todo EXCEPT ![r] = @ - 1]
  /\ \E h \in Hashes, dbok \in BOOLEAN :
       IF ~dbok
         THEN Return(r, [NewCall(h) EXCEPT !.obs = "err"], "err")
         ELSE IF HashStored(posts, h)
           THEN Return(r, [NewCall(h) EXCEPT !.obs = "present"], "nil")
           ELSE /\ loc' = [loc EXCEPT ![r] = [NewCall(h) EXCEPT !.obs = "absent"]]
                /\ hpc' = [hpc EXCEPT ![r] = "create"]
                /\ UNCHANGED left
  /\ UNCHANGED <<cfg, posts, status, marks, notifs, tasks, fs, svars>>

\* a Create whose error is only logged
CreateErrorIgnored(r) ==
  /\ hpc[r] = "create"
  /\ \E o \in CreateOutcomes(posts, loc[r].hash) :
       /\ posts' = o[1]
       /\ loc' = [loc EXCEPT ![r].created = o[2]]
       /\ hpc' = [hpc EXCEPT ![r] = "mark"]
       /\ UNCHANGED left
  /\ UNCHANGED <<cfg, todo, status, marks, notifs, tasks, fs, svars>>

\* postRepo.Create(post): on error processEntry returns it
Create(r) ==
  /\ hpc[r] = "create"
  /\ \E o \in CreateOutcomes(posts, loc[r].hash) :
       /\ posts' = o[1]
       /\ IF o[2] = "nil"
            THEN /\ loc' = [loc EXCEPT ![r].created = "nil"]
                 /\ hpc' = [hpc EXCEPT ![r] = "mark"]
                 /\ UNCHANGED left
            ELSE Return(r, [loc[r] EXCEPT !.created = o[2]], "err")
  /\ UNCHANGED <<cfg, todo, status, marks, notifs, tasks, fs, svars>>

\* a processEntry that returns the error of MarkEntryAsRead
MarkEntryAsReadFatal(r) ==
  /\ hpc[r] = "mark"
  /\ marks' = [marks EXCEPT ![loc[r].hash] = @ + 1]
  /\ \E e \in {"nil", "err"} :
       IF e = "err"
         THEN Return(r, [loc[r] EXCEPT !.mark = e], "err")
         ELSE /\ loc' = [loc EXCEPT ![r].mark = e]
              /\ hpc' = [hpc EXCEPT ![r] = "launch"]
              /\ UNCHANGED left
  /\ UNCHANGED <<cfg, posts, todo, status, notifs, tasks, fs, svars>>

\* minifluxService.MarkEntryAsRead(entry.ID): its error is only logged
MarkEntryAsRead(r) ==
  /\ hpc[r] = "mark"
  /\ \E e \in {"nil", "err"} :
       loc' = [loc EXCEPT ![r].mark = e]
  /\ marks' = [marks EXCEPT ![loc[r].hash] = @ + 1]
  /\ hpc' = [hpc EXCEPT ![r] = "launch"]
  /\ UNCHANGED <<cfg, posts, left, todo, status, notifs, tasks, fs, svars>>

NewTask(h) == [hash |-> h, pc |-> "lookpath", log |-> <<>>, fetched |-> {}]

\* a launch that waits until no archive task is in flight
LaunchWhenIdle(r) ==
  /\ hpc[r] = "launch"
  /\ \A t \in 1..Len(tasks) : tasks[t].pc = "end"
  /\ tasks' = Append(tasks, NewTask(loc[r].hash))
  /\ loc' = [loc EXCEPT ![r].task = Len(tasks) + 1]
  /\ hpc' = [hpc EXCEPT ![r] = "notify"]
  /\ UNCHANGED <<cfg, posts, left, todo, status, marks, notifs, fs, svars>>

\* go h.archiveService.DownloadContent(...): the task starts, the call goes on
Launch(r) ==
  /\ hpc[r] = "launch"
  /\ tasks' = Append(tasks, NewTask(loc[r].hash))
  /\ loc' = [loc EXCEPT ![r].task = Len(tasks) + 1]
  /\ hpc' = [hpc EXCEPT ![r] = "notify"]
  /\ UNCHANGED <<cfg, posts, left, todo, status, marks, notifs, fs, svars>>

\* a processEntry that waits for its archive task and returns the task's failure
SendEmbedJoined(r) ==
  /\ hpc[r] = "notify"
  /\ tasks[loc[r].task].pc = "end"
  /\ LET log == tasks[loc[r].task].log
         failed == \E i \in 1..Len(log) : log[i][2] = "err"
     IN  Return(r, loc[r], IF failed THEN "err" ELSE "nil")
  /\ UNCHANGED <<cfg, posts, todo, status, marks, notifs, tasks, fs, svars>>

\* a processEntry that returns the notifier's error
SendEmbedFatal(r) ==
  /\ hpc[r] = "notify"
  /\ IF cfg.discord
       THEN /\ notifs' = [notifs EXCEPT ![loc[r].hash] = @ + 1]
            /\ \E e \in {"nil", "err"} :
                 Return(r, [loc[r] EXCEPT !.notif = e], e)
       ELSE /\ UNCHANGED notifs
            /\ Return(r, loc[r], "nil")
  /\ UNCHANGED <<cfg, posts, todo, status, marks, tasks, fs, svars>>

\* if h.discordService != nil { SendEmbed(feed, entry) }: its error is only
\* logged; then processEntry returns nil
SendEmbed(r) ==
  /\ hpc[r] = "notify"
  /\ IF cfg.discord
       THEN /\ notifs' = [notifs EXCEPT ![loc[r].hash] = @ + 1]
            /\ \E e \in {"nil", "err"} :
                 Return(r, [loc[r] EXCEPT !.notif = e], "nil")
       ELSE /\ UNCHANGED notifs
            /\ Return(r, loc[r], "nil")
  /\ UNCHANGED <<cfg, posts, todo, status, marks, tasks, fs, svars>>

\* ------------------------------------------- archive task (DownloadContent)

Stages == <<"lookpath", "mkdir", "exec", "upload", "cleanup">>

\* task t performed stage st with outcome e and goes on at next
Advance(t, st, e, next) ==
  [tasks EXCEPT ![t] = [@ EXCEPT !.log = Append(@, <<st, e>>), !.pc = next]]

\* a DownloadContent that goes on without the tool
AfterLookPathNoReturn(found) == "mkdir"

\* exec.LookPath("gallery-dl"): when it fails the task logs and returns
AfterLookPath(found) == IF found THEN "mkdir" ELSE "end"

\* a DownloadContent that calls UploadFiles on any service
AfterDownloadUploads(e, configured) == IF e = "err" THEN "end" ELSE "upload"

\* a DownloadContent that uploads whatever the tool left behind
AfterDownloadNoReturn(e, configured) == IF configured THEN "upload" ELSE "end"

\* executeGalleryDL failed: log and return; else upload when the Chibisafe
\* service is set and configured
AfterDownload(e, configured) ==
  IF e = "err" THEN "end" ELSE IF configured THEN "upload" ELSE "end"

\* a DownloadContent that cleans up whatever UploadFiles returned
AfterUploadAlways(e, cleanupAfterUpload) ==
  IF cleanupAfterUpload THEN "cleanup" ELSE "end"

\* cleanupDirectory is called in the else branch of the UploadFiles error
\* check, under if s.cleanupAfterUpload
AfterUpload(e, cleanupAfterUpload) ==
  IF e = "nil" /\ cleanupAfterUpload THEN "cleanup" ELSE "end"

LookPath(t) ==
  /\ t <= Len(tasks)
  /\ tasks[t].pc = "lookpath"
  /\ \E found \in BOOLEAN :
       tasks' = Advance(t, "lookpath", IF found THEN "nil" ELSE "err",
                        AfterLookPath(found))
  /\ UNCHANGED <<cfg, posts, hvars, marks, notifs, fs, svars>>

\* os.MkdirAll(archiveDir, 0755)
MkdirAll(t) ==
  /\ t <= Len(tasks)
  /\ tasks[t].pc = "mkdir"
  /\ \E ok \in BOOLEAN :
       IF ok
         THEN /\ fs' = [fs EXCEPT ![tasks[t].hash].exists = TRUE]
              /\ tasks' = Advance(t, "mkdir", "nil", "exec")
         ELSE /\ UNCHANGED fs
              /\ tasks' = Advance(t, "mkdir", "err", "end")
  /\ UNCHANGED <<cfg, posts, hvars, marks, notifs, svars>>

\* a download whose failure takes the record of the entry out of the posts
\* table
ExecuteGalleryDLForgets(t) ==
  /\ t <= Len(tasks)
  /\ tasks[t].pc = "exec"
  /\ \E e \in {"nil", "err"}, w \in SUBSET Files :
       /\ fs' = [fs EXCEPT ![tasks[t].hash] =
                   [exists |-> TRUE, files |-> @.files \cup w]]
       /\ tasks' = [Advance(t, "exec", e, AfterDownload(e, cfg.chibisafe))
                      EXCEPT ![t].fetched = w]
       /\ posts' = IF e = "err"
                     THEN SelectSeq(posts, LAMBDA h : h # tasks[t].hash)
                     ELSE posts
  /\ UNCHANGED <<cfg, hvars, marks, notifs, svars>>

\* executeGalleryDL(archiveDir, url): one run of the tool, which writes some
\* files w (flat) into the directory and exits with zero or non-zero status
ExecuteGalleryDL(t) ==
  /\ t <= Len(tasks)
  /\ tasks[t].pc = "exec"
  /\ \E e \in {"nil", "err"}, w \in SUBSET Files :
       /\ fs' = [fs EXCEPT ![tasks[t].hash] =
                   [exists |-> TRUE, files |-> @.files \cup w]]
       /\ tasks' = [Advance(t, "exec", e, AfterDownload(e, cfg.chibisafe))
                      EXCEPT ![t].fetched = w]
  /\ UNCHANGED <<cfg, posts, hvars, marks, notifs, svars>>

\* UploadFiles: an album resolution failure and a directory listing failure
\* are returned; everything else (tag failure, per-file failures) is logged
UploadFilesResult(albumOk, listOk) == IF albumOk /\ listOk THEN "nil" ELSE "err"

UploadFiles(t) ==
  /\ t <= Len(tasks)
  /\ tasks[t].pc = "upload"
  /\ \E albumOk \in BOOLEAN, listOk \in BOOLEAN :
       LET e == UploadFilesResult(albumOk, listOk)
       IN  tasks' = Advance(t, "upload", e, AfterUpload(e, cfg.cleanup))
  /\ UNCHANGED <<cfg, posts, hvars, marks, notifs, fs, svars>>

\* cleanupDirectory(archiveDir): nothing to do for a missing directory; a
\* listing failure is returned; every regular file is removed unless its
\* removal fails (kept); the directory is removed when it is empty
CleanupDirectory(t) ==
  /\ t <= Len(tasks)
  /\ tasks[t].pc = "cleanup"
  /\ LET d == fs[tasks[t].hash]
     IN  IF ~d.exists
           THEN /\ UNCHANGED fs
                /\ tasks' = Advance(t, "cleanup", "nil", "end")
           ELSE \E readOk \in BOOLEAN, kept \in SUBSET d.files :
                  IF ~readOk
                    THEN /\ UNCHANGED fs
                         /\ tasks' = Advance(t, "cleanup", "err", "end")
                    ELSE /\ fs' = [fs EXCEPT ![tasks[t].hash] =
                                     [exists |-> kept # {}, files |-> kept]]
                         /\ tasks' = Advance(t, "cleanup", "nil", "end")
  /\ UNCHANGED <<cfg, posts, hvars, marks, notifs, svars>>

\* ------------------------------------------------ ChibisafeService.getSettings

NoGet == [seen |-> "no", ret |-> "none"]

\* a getSettings that never looks at the cached value
CheckCacheSkipped(g) ==
  /\ gpc[g] = "idle"
  /\ Len(sent[g]) = gcalls[g]
  /\ gcalls[g] < MaxCalls
  /\ gcalls' = [gcalls EXCEPT ![g] = @ + 1]
  /\ gloc' = [gloc EXCEPT ![g] = [seen |-> cache, ret |-> "none"]]
  /\ gpc' = [gpc EXCEPT ![g] = "fetch"]
  /\ UNCHANGED <<cache, requests, writes, sent, pvars>>

\* uploadFile calls getSettings, which starts: under the read lock, return the cached value when
\* useNetworkStorage is not nil; else go on to fetch it
CheckCache(g) ==
  /\ gpc[g] = "idle"
  /\ Len(sent[g]) = gcalls[g]
  /\ gcalls[g] < MaxCalls
  /\ gcalls' = [gcalls EXCEPT ![g] = @ + 1]
  /\ IF cache # "nil"
       THEN /\ gloc' = [gloc EXCEPT ![g] = [seen |-> cache, ret |-> cache]]
            /\ UNCHANGED gpc
       ELSE /\ gloc' = [gloc EXCEPT ![g] = [seen |-> cache, ret |-> "none"]]
            /\ gpc' = [gpc EXCEPT ![g] = "fetch"]
  /\ UNCHANGED <<cache, requests, writes, sent, pvars>>

\* a getSettings that remembers a failed fetch as "false"
FetchSettingsPoisoned(g) ==
  /\ gpc[g] = "fetch"
  /\ requests' = requests + 1
  /\ \/ /\ gloc' = [gloc EXCEPT ![g].ret = "err"]
        /\ cache' = "false"
        /\ gpc' = [gpc EXCEPT ![g] = "idle"]
     \/ /\ \E v \in {"true", "false"} :
             /\ gloc' = [gloc EXCEPT ![g].ret = v]
             /\ gpc' = [gpc EXCEPT ![g] = "store"]
        /\ UNCHANGED cache
  /\ UNCHANGED <<gcalls, writes, sent, pvars>>

\* GET /api/settings: a request that cannot be built is an error and nothing
\* is sent; a transport error, a status other than 200 or an undecodable body
\* is returned as an error; else the decoded value v is kept
FetchSettings(g) ==
  /\ gpc[g] = "fetch"
  /\ \/ /\ UNCHANGED requests
        /\ gloc' = [gloc EXCEPT ![g].ret = "err"]
        /\ gpc' = [gpc EXCEPT ![g] = "idle"]
     \/ /\ requests' = requests + 1
        /\ gloc' = [gloc EXCEPT ![g].ret = "err"]
        /\ gpc' = [gpc EXCEPT ![g] = "idle"]
     \/ /\ requests' = requests + 1
        /\ \E v \in {"true", "false"} :
             /\ gloc' = [gloc EXCEPT ![g].ret = v]
             /\ gpc' = [gpc EXCEPT ![g] = "store"]
  /\ UNCHANGED <<cache, gcalls, writes, sent, pvars>>

\* under the write lock: s.useNetworkStorage = &settings.UseNetworkStorage;
\* then the fetched settings are returned
StoreSettings(g) ==
  /\ gpc[g] = "store"
  /\ cache' = gloc[g].ret
  /\ writes' = writes + 1
  /\ gpc' = [gpc EXCEPT ![g] = "idle"]
  /\ UNCHANGED <<gloc, gcalls, requests, sent, pvars>>

\* ------------------------------------------------ ChibisafeService.uploadFile

\* an uploadFile that never takes the signed-URL upload
SelectDirect(ret) == "direct"

\* uploadFile: the direct upload when getSettings returned an error or
\* UseNetworkStorage is false, the signed-URL (S3) upload when it is true
SelectStrategy(ret) == IF ret = "err" THEN "direct" ELSE IF ret = "true" THEN "s3" ELSE "direct"

\* getSettings has returned to uploadFile, which runs the selected strategy
\* once and returns what the strategy returns
RunStrategy(g) ==
  /\ gpc[g] = "idle"
  /\ Len(sent[g]) < gcalls[g]
  /\ sent' = [sent EXCEPT ![g] = Append(@, SelectStrategy(gloc[g].ret))]
  /\ UNCHANGED <<cache, gpc, gloc, gcalls, requests, writes, pvars>>

\* ------------------------------------------------------------------ strings
\* A Go string is the sequence of its characters; a character outside ASCII
\* is written by its code point.

UpperCase == <<"A", "B", "C", "D", "E", "F", "G", "H", "I", "J", "K", "L", "M",
               "N", "O", "P", "Q", "R", "S", "T", "U", "V", "W", "X", "Y", "Z">>
LowerCase == <<"a", "b", "c", "d", "e", "f", "g", "h", "i", "j", "k", "l", "m",
               "n", "o", "p", "q", "r", "s", "t", "u", "v", "w", "x", "y", "z">>
Digits == <<"0", "1", "2", "3", "4", "5", "6", "7", "8", "9">>

Range(f) == {f[i] : i \in DOMAIN f}

\* strings.ToLower, on the characters used here
ToLowerChar(c) ==
  IF c \in Range(UpperCase)
    THEN LowerCase[CHOOSE i \in DOMAIN UpperCase : UpperCase[i] = c]
    ELSE c

ToLower(str) == [i \in 1..Len(str) |-> ToLowerChar(str[i])]

\* the decimal digits of n, as %d prints them
RECURSIVE Itoa(_)
Itoa(n) ==
  IF n < Len(Digits)
    THEN <<Digits[n + 1]>>
    ELSE Itoa(n \div Len(Digits)) \o <<Digits[(n % Len(Digits)) + 1]>>

\* strconv.Atoi on a string of decimal digits
RECURSIVE Atoi(_)
Atoi(str) ==
  IF str = <<>> THEN 0
  ELSE Atoi(SubSeq(str, 1, Len(str) - 1)) * 10
         + ((CHOOSE i \in 1..Len(Digits) : Digits[i] = str[Len(str)]) - 1)

IsNumeral(str, w) ==
  Len(str) = w /\ \A i \in 1..w : str[i] \in Range(Digits)

\* filepath.Ext: the suffix of name that starts at its last dot, or ""
Ext(name) ==
  LET dots == {i \in 1..Len(name) : name[i] = "."}
  IN  IF dots = {} THEN <<>>
      ELSE SubSeq(name, CHOOSE i \in dots : \A j \in dots : j <= i, Len(name))

\* unicode.IsLetter and unicode.IsDigit: the ASCII letters and digits, and
\* beyond ASCII a letter (U+00E9, e with acute) and a digit (U+0663, Arabic-Indic three)
IsAsciiLetter(c) == c \in Range(UpperCase) \cup Range(LowerCase)
IsLetter(c) == c \in Range(UpperCase) \cup Range(LowerCase) \cup {"U+00E9"}

IsDigit(c) == c \in Range(Digits) \cup {"U+0663"}

Unknown == <<"u", "n", "k", "n", "o", "w", "n">>

\* SanitizeForPath: "unknown" for the empty string; else every rune that is
\* not a letter, a digit, '_' or '-' becomes '_'
SanitizeForPath(str) ==
  IF str = <<>> THEN Unknown
  ELSE [i \in 1..Len(str) |->
          IF IsLetter(str[i]) \/ IsDigit(str[i]) \/ str[i] = "_" \/ str[i] = "-"
            THEN str[i] ELSE "_"]

\* ------------------------------------ ChibisafeService.uploadDirectoryFiles

Jpg == <<".", "j", "p", "g">>
PngUpper == <<".", "P", "N", "G">>
Txt == <<".", "t", "x", "t">>

\* supportedExts
SupportedExts ==
  { Jpg, <<".", "j", "p", "e", "g">>, <<".", "p", "n", "g">>, <<".", "g", "i", "f">>,
    <<".", "w", "e", "b", "p">>, <<".", "b", "m", "p">>, <<".", "t", "i", "f", "f">>,
    <<".", "s", "v", "g">>, <<".", "m", "p", "4">> }

\* an allow-list compared with the extension as written
IsSupportedExact(name) == Ext(name) \in SupportedExts

\* isSupportedFile: the lower-cased extension is in the allow-list
IsSupportedFile(name) == ToLower(Ext(name)) \in SupportedExts

\* what a directory entry can be: a subdirectory (here with an image's name)
\* or a regular file with one of three extensions
EntryKinds ==
  { [dir |-> TRUE, ext |-> Jpg], [dir |-> FALSE, ext |-> Jpg],
    [dir |-> FALSE, ext |-> PngUpper], [dir |-> FALSE, ext |-> Txt] }

\* os.ReadDir returns the entries sorted by name: the k-th is named f<k><ext>
EntryAt(k, kind) == [name |-> <<"f">> \o Itoa(k) \o kind.ext, dir |-> kind.dir]

Listings ==
  UNION { { [k \in 1..n |-> EntryAt(k, kinds[k])] : kinds \in [1..n -> EntryKinds] }
          : n \in 0..MaxEntries }

\* titles handed to UploadFiles
Titles == { <<>>, <<"M", "y", " ", "P", "o", "s", "t">>, <<"a", "-", "1">> }

NoUpload == [pc |-> "idle", title |-> <<>>, album |-> "", albumErr |-> "none",
             tag |-> "", tagErr |-> "none", listing |-> <<>>, listed |-> "none",
             supported |-> <<>>, i |-> 0, log |-> <<>>, via |-> "none",
             asked |-> FALSE, res |-> "none", cleaned |-> "none", deleted |-> {}]

\* what getOrCreateAlbum returns: an identifier, an error with no identifier,
\* or the empty identifier of a create response that carries none
AlbumResults ==
  { [id |-> "alb-1", err |-> "nil"], [id |-> "", err |-> "err"],
    [id |-> "", err |-> "nil"] }

\* what getOrCreateTag returns: an identifier, an error with no identifier
\* (every error path returns ""), or the empty identifier of a create
\* response that carries none
TagResults ==
  { [id |-> "tag-1", err |-> "nil"], [id |-> "", err |-> "err"],
    [id |-> "", err |-> "nil"] }

\* an UploadFiles that returns the tag resolution's error
AfterTagFatal(e) == IF e = "err" THEN "done" ELSE "list"

\* a tag resolution error is logged: uploadDirectoryFiles is called anyway
AfterTag(e) == "list"

\* a tag request for every uploaded file
AttachAlways(tagUUID, fileUUID) == TRUE

\* addTagToFile is called with a tag identifier and a file identifier
AttachTag(tagUUID, fileUUID) == tagUUID # "" /\ fileUUID # ""

\* UploadFiles: on a service that is not configured it returns nil at once;
\* else albumUUID, err := getOrCreateAlbum(categoryTitle), whose error is
\* returned
GetOrCreateAlbum ==
  /\ up.pc = "album"
  /\ IF ~cfg.chibisafe
       THEN up' = [up EXCEPT !.pc = "done", !.res = "nil"]
       ELSE \E o \in AlbumResults :
              IF o.err = "err"
                THEN up' = [up EXCEPT !.albumErr = "err", !.pc = "done", !.res = "err"]
                ELSE up' = [up EXCEPT !.album = o.id, !.albumErr = "nil", !.pc = "tag"]
  /\ UNCHANGED <<wvars, cvars, rvars, xvars>>

\* tagUUID, err := getOrCreateTag(author)
GetOrCreateTag ==
  /\ up.pc = "tag"
  /\ \E o \in TagResults :
       up' = [up EXCEPT !.tag = o.id, !.tagErr = o.err, !.pc = AfterTag(o.err),
                        !.res = IF AfterTag(o.err) = "done" THEN "err" ELSE @]
  /\ UNCHANGED <<wvars, cvars, rvars, xvars>>

\* supportedFiles: the positions in the listing, from k on, of the regular
\* files with a supported extension, in listing order
RECURSIVE SupportedFiles(_, _)
SupportedFiles(listing, k) ==
  IF k > Len(listing) THEN <<>>
  ELSE IF listing[k].dir THEN SupportedFiles(listing, k + 1)
  ELSE IF ~IsSupportedFile(listing[k].name) THEN SupportedFiles(listing, k + 1)
  ELSE <<k>> \o SupportedFiles(listing, k + 1)

\* sanitizedTitle, with its "unknown" fallback
SanitizedTitle(title) ==
  LET t == SanitizeForPath(title) IN IF t = <<>> THEN Unknown ELSE t

\* a numbering that starts at zero
UploadNameZeroBased(t, n, i, ext) ==
  IF n = 1 THEN t \o ext ELSE t \o <<"-">> \o Itoa(i - 1) \o ext

\* the name given to the i-th (from 1) of n supported files
UploadName(t, n, i, ext) ==
  IF n = 1 THEN t \o ext ELSE t \o <<"-">> \o Itoa(i) \o ext

\* a loop that ends at the first failed upload
StopOnFailure(i, res, n) == IF res = "err" THEN n + 1 ELSE i + 1

\* continue: after file i the loop goes on with file i + 1
NextFile(i, res, n) == i + 1

\* os.ReadDir(dirPath): its error is returned; with no supported file the
\* call returns nil; else the loop over supportedFiles starts
ReadDir ==
  /\ up.pc = "list"
  /\ \E ok \in BOOLEAN :
       IF ~ok
         THEN up' = [up EXCEPT !.listed = "err", !.pc = "done", !.res = "err"]
         ELSE LET sup == SupportedFiles(up.listing, 1)
              IN  IF sup = <<>>
                    THEN up' = [up EXCEPT !.listed = "nil", !.pc = "done", !.res = "nil"]
                    ELSE up' = [up EXCEPT !.listed = "nil", !.supported = sup,
                                          !.i = 1, !.pc = "loop"]
  /\ UNCHANGED <<wvars, cvars, rvars, xvars>>

\* one iteration of the loop: uploadFile(filePath, filename, albumUUID) gets
\* the settings (from the cache or with a request, which can fail), runs the
\* strategy they select and returns an error, a file identifier, or, from
\* uploadFileDirect alone, no error and the empty identifier of a response
\* that carries none; with a tag and an identifier addTagToFile is called, its
\* error only logged
UploadFile ==
  /\ up.pc = "loop"
  /\ up.i <= Len(up.supported)
  /\ LET k == up.supported[up.i]
         n == Len(up.supported)
         filename == UploadName(SanitizedTitle(up.title), n, up.i, Ext(up.listing[k].name))
     IN  \E a \in BOOLEAN, ret \in {"err", "true", "false"},
            r \in {"err", "uuid", "empty"}, t \in {"nil", "err"} :
           LET via == SelectStrategy(ret)
               fileUUID == IF r = "uuid" THEN "file" ELSE ""
           IN  /\ ret = "err" => a
               /\ r = "empty" => via = "direct"
               /\ (r = "err" \/ ~AttachTag(up.tag, fileUUID)) => t = "nil"
               /\ up' = [up EXCEPT
                    !.log = Append(@, [entry |-> k, name |-> filename,
                                       album |-> up.album, res |-> r,
                                       tag |-> IF r # "err" /\ AttachTag(up.tag, fileUUID)
                                                 THEN t ELSE "no"]),
                    !.via = via,
                    !.asked = @ \/ a,
                    !.i = NextFile(up.i, r, n)]
  /\ UNCHANGED <<wvars, cvars, rvars, xvars>>

\* the loop is over: return nil
FinishUpload ==
  /\ up.pc = "loop"
  /\ up.i > Len(up.supported)
  /\ up' = [up EXCEPT !.pc = "done", !.res = "nil"]
  /\ UNCHANGED <<wvars, cvars, rvars, xvars>>

\* ------------------- DownloadContent after the download: upload and cleanup

\* the regular files of the archive directory, by position in its listing
RegularFiles(listing) == {k \in 1..Len(listing) : ~listing[k].dir}

\* if s.chibisafeService != nil && s.chibisafeService.IsConfigured(): else
\* DownloadContent returns after the download
CheckConfigured ==
  /\ up.pc = "task"
  /\ up' = IF AfterDownload("nil", cfg.chibisafe) = "upload"
             THEN [up EXCEPT !.pc = "album"]
             ELSE [up EXCEPT !.pc = "end"]
  /\ UNCHANGED <<wvars, cvars, rvars, xvars>>

\* UploadFiles returned: its error is logged; else, with cleanupAfterUpload,
\* cleanupDirectory(archiveDir) is called: a listing failure is its error;
\* else os.Remove is called on every regular file of the directory and
\* removes it unless it fails (kept)
CleanupAfterUpload ==
  /\ up.pc = "done"
  /\ IF AfterUpload(up.res, cfg.cleanup) # "cleanup"
       THEN up' = [up EXCEPT !.pc = "end", !.cleaned = "skipped"]
       ELSE \E readOk \in BOOLEAN, kept \in SUBSET RegularFiles(up.listing) :
              /\ ~readOk => kept = {}
              /\ up' = IF ~readOk
                         THEN [up EXCEPT !.pc = "end", !.cleaned = "err"]
                         ELSE [up EXCEPT !.pc = "end", !.cleaned = "nil",
                                         !.deleted = RegularFiles(up.listing) \ kept]
  /\ UNCHANGED <<wvars, cvars, rvars, xvars>>

\* ------------------------------------------ getOrCreateAlbum, getOrCreateTag
\* The two functions have the same shape; an entity is an album or a tag.

Foo == <<"F", "o", "o">>
FooLower == <<"f", "o", "o">>
Bar == <<"B", "a", "r">>
EntityNames == {Foo, FooLower, Bar}

\* strings.EqualFold, on the characters used here
EqualFold(a, b) == ToLower(a) = ToLower(b)

\* a comparison that tells upper case from lower case
EqualExact(a, b) == a = b

\* the test made on each entity of the search result
NameMatches(a, b) == EqualFold(a, b)

\* the positions in result of the entities named like name
Matches(result, name) == {i \in 1..Len(result) : NameMatches(result[i].name, name)}

\* the loop over the search result: the identifier of the first match, or 0
FirstMatch(result, name) ==
  IF Matches(result, name) = {} THEN 0
  ELSE result[CHOOSE i \in Matches(result, name) :
                \A j \in Matches(result, name) : i <= j].id

\* GET /api/albums?search=name (or /api/tags): the service answers with its
\* stored entities whose name is name up to case
SearchResult(store, name) ==
  SelectSeq(store, LAMBDA e : ToLower(e.name) = ToLower(name))

NoResolve == [pc |-> "idle", name |-> <<>>, found |-> 0, log |-> <<>>]

\* what a returned call leaves in the log
Returned(c, id, err, creates) ==
  [c EXCEPT !.pc = "idle",
            !.log = Append(@, [name |-> c.name, found |-> c.found, id |-> id,
                               err |-> err, creates |-> creates])]

\* calls started so far, returned or not
Resolves ==
  Cardinality({r \in Resolvers : rsv[r].pc # "idle"})
    + Cardinality({c \in Resolvers \X (1..MaxResolves) : c[2] <= Len(rsv[c[1]].log)})

\* getOrCreateAlbum(name) is called
StartResolve(r) ==
  /\ rsv[r].pc = "idle"
  /\ Resolves < MaxResolves
  /\ \E name \in EntityNames :
       rsv' = [rsv EXCEPT ![r] = [@ EXCEPT !.pc = "search", !.name = name, !.found = 0]]
  /\ UNCHANGED <<wvars, cvars, uvars, xvars, remote>>

\* searchAlbums and the loop over its result: a search error is returned;
\* the identifier of the first entity named like name is returned; else the
\* call goes on to create
SearchEntities(r) ==
  /\ rsv[r].pc = "search"
  /\ \E ok \in BOOLEAN :
       IF ~ok
         THEN rsv' = [rsv EXCEPT ![r] = Returned(@, 0, "err", 0)]
         ELSE LET id == FirstMatch(SearchResult(remote, rsv[r].name), rsv[r].name)
              IN  IF id # 0
                    THEN rsv' = [rsv EXCEPT ![r] = Returned([@ EXCEPT !.found = id], id, "nil", 0)]
                    ELSE rsv' = [rsv EXCEPT ![r].pc = "create"]
  /\ UNCHANGED <<wvars, cvars, uvars, xvars, remote>>

\* a create that stores nothing when an entity of that name is stored
StoreIfAbsent(store, name) ==
  IF \E i \in 1..Len(store) : EqualFold(store[i].name, name) THEN store
  ELSE Append(store, [name |-> name, id |-> Len(store) + 1])

\* POST /api/album/create {name}: nothing in the request makes the service
\* look for an entity of that name; it stores one under a new identifier
StoreCreated(store, name) == Append(store, [name |-> name, id |-> Len(store) + 1])

\* createAlbum(name): one POST; the request is lost, or the service stores an
\* entity of that name under a new identifier and its answer is lost or decoded
CreateEntity(r) ==
  /\ rsv[r].pc = "create"
  /\ \E o \in {"lost", "stored", "ok"} :
       LET id == Len(remote) + 1
       IN  /\ remote' = IF o = "lost" THEN remote
                        ELSE StoreCreated(remote, rsv[r].name)
           /\ rsv' = [rsv EXCEPT ![r] =
                        IF o = "ok" THEN Returned(@, id, "nil", 1)
                        ELSE Returned(@, 0, "err", 1)]
  /\ UNCHANGED <<wvars, cvars, uvars, xvars>>

\* ------------------------------------------------------------------- paths

Slash == "/"
Dot == <<".">>
DotDot == <<".", ".">>

Min(S) == CHOOSE x \in S : \A y \in S : x <= y
Max(S) == CHOOSE x \in S : \A y \in S : y <= x

\* the positions of the separators of path p
Slashes(p) == {i \in 1..Len(p) : p[i] = Slash}

\* the elements of p between its separators, empty ones included
RECURSIVE Elements(_)
Elements(p) ==
  IF Slashes(p) = {} THEN <<p>>
  ELSE <<SubSeq(p, 1, Min(Slashes(p)) - 1)>>
         \o Elements(SubSeq(p, Min(Slashes(p)) + 1, Len(p)))

\* the loop of filepath.Clean: empty and "." elements are dropped, ".."
\* drops the element before it, or is kept when a relative path has none
RECURSIVE Lexical(_, _, _)
Lexical(elems, out, rooted) ==
  IF elems = <<>> THEN out
  ELSE IF Head(elems) = <<>> \/ Head(elems) = Dot
    THEN Lexical(Tail(elems), out, rooted)
  ELSE IF Head(elems) = DotDot
    THEN IF out # <<>> /\ out[Len(out)] # DotDot
           THEN Lexical(Tail(elems), SubSeq(out, 1, Len(out) - 1), rooted)
         ELSE IF rooted THEN Lexical(Tail(elems), out, rooted)
         ELSE Lexical(Tail(elems), Append(out, DotDot), rooted)
  ELSE Lexical(Tail(elems), Append(out, Head(elems)), rooted)

\* strings.Join(elems, "/")
RECURSIVE JoinWith(_)
JoinWith(elems) ==
  IF elems = <<>> THEN <<>>
  ELSE IF Len(elems) = 1 THEN elems[1]
  ELSE elems[1] \o <<Slash>> \o JoinWith(Tail(elems))

\* filepath.Clean
Clean(p) ==
  LET rooted == p # <<>> /\ p[1] = Slash
      out == JoinWith(Lexical(Elements(p), <<>>, rooted))
  IN  IF rooted THEN <<Slash>> \o out
      ELSE IF out = <<>> THEN Dot
      ELSE out

\* filepath.Dir: p up to its last separator, cleaned
Dir(p) ==
  Clean(IF Slashes(p) = {} THEN <<>> ELSE SubSeq(p, 1, Max(Slashes(p))))

\* filepath.Join: the elements from the first non-empty one on, joined and
\* cleaned
Join(elems) ==
  LET full == {i \in 1..Len(elems) : elems[i] # <<>>}
  IN  IF full = {} THEN <<>>
      ELSE Clean(JoinWith(SubSeq(elems, Min(full), Len(elems))))

\* p and the directories above it, up to "." or "/"
RECURSIVE Ancestors(_)
Ancestors(p) == IF Dir(p) = p THEN {p} ELSE {p} \cup Ancestors(Dir(p))

\* fmt.Sprintf("%d", n) for n >= 0
Unpadded(n, w) == Itoa(n)

\* fmt.Sprintf("%0wd", n) for n >= 0
Pad(n, w) ==
  IF Len(Itoa(n)) >= w THEN Itoa(n)
  ELSE [i \in 1..(w - Len(Itoa(n))) |-> "0"] \o Itoa(n)

\* time.Month.String
MonthNames == <<
  <<"J", "a", "n", "u", "a", "r", "y">>,
  <<"F", "e", "b", "r", "u", "a", "r", "y">>,
  <<"M", "a", "r", "c", "h">>,
  <<"A", "p", "r", "i", "l">>,
  <<"M", "a", "y">>,
  <<"J", "u", "n", "e">>,
  <<"J", "u", "l", "y">>,
  <<"A", "u", "g", "u", "s", "t">>,
  <<"S", "e", "p", "t", "e", "m", "b", "e", "r">>,
  <<"O", "c", "t", "o", "b", "e", "r">>,
  <<"N", "o", "v", "e", "m", "b", "e", "r">>,
  <<"D", "e", "c", "e", "m", "b", "e", "r">>>>

Dash == <<" ", "-", " ">>

buildArchivePath(baseDir, author, categoryTitle, year, month, hash) ==
  Join(<<baseDir,
         SanitizeForPath(author) \o Dash \o SanitizeForPath(categoryTitle),
         Pad(year, 4),
         Pad(month, 2) \o Dash \o MonthNames[month],
         hash>>)

\* --------------------------------- cleanupDirectory, cleanupEmptyParentDirs

\* the archive directory of the default, written without "./"
DataArchive == <<"d", "a", "t", "a", "/", "a", "r", "c", "h", "i", "v", "e">>

\* getEnv("ARCHIVE_DIR", "./data/archive")
DefaultArchiveDir == <<".", "/", "d", "a", "t", "a", "/", "a", "r", "c", "h", "i", "v", "e">>

\* values of ARCHIVE_DIR: the default, the same directory written without
\* "./" and with a trailing separator, an absolute path, a single name
BaseDirs == {DefaultArchiveDir,
             DataArchive,
             <<"d", "a", "t", "a", "/", "a", "r", "c", "h", "i", "v", "e", "/">>,
             <<"/", "s", "r", "v", "/", "a", "r", "c", "h", "i", "v", "e">>,
             <<"a", "r", "c", "h", "i", "v", "e">>}

Jane == <<"J", "a", "n", "e">>
Patreon == <<"P", "a", "t", "r", "e", "o", "n">>
Abc123 == <<"a", "b", "c", "1", "2", "3">>
Def456 == <<"d", "e", "f", "4", "5", "6">>

NoCleanup ==
  [pc |-> "idle", base |-> <<>>, dir |-> <<>>, dirs |-> {}, busy |-> {},
   files |-> 0, subs |-> 0, inner |-> 0, entries |-> 0, skips |-> 0,
   filesRemoved |-> 0, cur |-> <<>>, removed |-> <<>>,
   failed |-> FALSE, calls |-> 0, other |-> <<>>, ofiles |-> 0,
   ret |-> "none"]

\* directory d of the tree has no entry: no directory below it, no regular
\* file of the archived post, nothing of another post
IsEmpty(c, d) ==
  /\ d \notin c.busy
  /\ \A x \in c.dirs : x # d => Dir(x) # d
  /\ d = Clean(c.dir) => c.files = 0 /\ c.subs = 0

\* a cleanupDirectory without the os.Stat test
AfterStatAlways(exists) == "readdir"

\* os.IsNotExist(err): nothing to clean up, return nil
AfterStat(exists) == IF ~exists THEN "done" ELSE "readdir"

\* os.Stat(dirPath) at the head of cleanupDirectory
StatDirectory ==
  /\ cln.pc = "stat"
  /\ cln' = IF AfterStat(Clean(cln.dir) \in cln.dirs) = "done"
              THEN [cln EXCEPT !.pc = "done", !.ret = "nil"]
              ELSE [cln EXCEPT !.pc = "readdir"]
  /\ UNCHANGED <<wvars, cvars, uvars, rvars, mk, pf, yvars>>

\* os.ReadDir(dirPath): an error (the only outcome for a missing directory)
\* ends the call, else the loop starts over the entries read, regular files
\* and subdirectories
ReadDirectory ==
  /\ cln.pc = "readdir"
  /\ \E ok \in BOOLEAN :
       /\ ok => Clean(cln.dir) \in cln.dirs
       /\ cln' = IF ok THEN [cln EXCEPT !.pc = "files", !.entries = cln.files,
                                        !.skips = cln.subs, !.filesRemoved = 0]
                 ELSE [cln EXCEPT !.pc = "done", !.ret = "err"]
  /\ UNCHANGED <<wvars, cvars, uvars, rvars, mk, pf, yvars>>

\* a loop that calls os.Remove on every entry
RemovesAll(isDir) == TRUE

\* if !entry.IsDir(): os.Remove is called on the regular files only
Removes(isDir) == ~isDir

\* one turn of the loop, on a regular file or on a subdirectory: os.Remove of
\* a regular file, whose failure is logged, counted in filesRemoved when it
\* succeeds; a subdirectory is passed over (os.Remove would remove an empty
\* one and fail on one that has entries)
RemoveEntry ==
  /\ cln.pc = "files"
  /\ \E isDir \in BOOLEAN, ok \in BOOLEAN :
       /\ IF isDir THEN cln.skips > 0 ELSE cln.entries > 0
       /\ ~Removes(isDir) => ok
       /\ cln' =
            IF ~isDir
              THEN [cln EXCEPT !.entries = @ - 1,
                               !.files = IF ok THEN @ - 1 ELSE @,
                               !.filesRemoved = IF ok THEN @ + 1 ELSE @,
                               !.failed = @ \/ ~ok]
            ELSE IF Removes(isDir) /\ ok /\ cln.inner < cln.subs
              THEN [cln EXCEPT !.skips = @ - 1, !.subs = @ - 1,
                               !.filesRemoved = @ + 1]
            ELSE [cln EXCEPT !.skips = @ - 1,
                             !.failed = @ \/ Removes(isDir)]
  /\ UNCHANGED <<wvars, cvars, uvars, rvars, mk, pf, yvars>>

\* after the loop: os.Remove(dirPath), which fails on a directory that still
\* has entries, then cleanupEmptyParentDirs is called on filepath.Dir(dirPath)
RemoveDirectory ==
  /\ cln.pc = "files"
  /\ cln.entries = 0
  /\ cln.skips = 0
  /\ \E ok \in BOOLEAN :
       cln' = IF ~IsEmpty(cln, Clean(cln.dir))
                THEN [cln EXCEPT !.pc = "parents", !.cur = Dir(cln.dir)]
              ELSE IF ~ok
                THEN [cln EXCEPT !.pc = "parents", !.cur = Dir(cln.dir),
                                 !.failed = TRUE]
              ELSE [cln EXCEPT !.pc = "parents", !.cur = Dir(cln.dir),
                               !.dirs = @ \ {Clean(cln.dir)},
                               !.removed = Append(@, Clean(cln.dir))]
  /\ UNCHANGED <<wvars, cvars, uvars, rvars, mk, pf, yvars>>

\* cleanupEmptyParentDirs(dirPath), one call of the recursion up to its
\* os.ReadDir: it returns at the base directory and at its parent, on a
\* listing error and on a directory that has entries
CleanupEmptyParentDirs ==
  /\ cln.pc = "parents"
  /\ cln' = IF cln.cur = cln.base \/ cln.cur = Dir(cln.base)
              THEN [cln EXCEPT !.pc = "done", !.ret = "nil"]
            ELSE IF Clean(cln.cur) \notin cln.dirs
              THEN [cln EXCEPT !.pc = "done", !.ret = "nil"]
            ELSE IF ~IsEmpty(cln, Clean(cln.cur))
              THEN [cln EXCEPT !.pc = "done", !.ret = "nil"]
            ELSE [cln EXCEPT !.pc = "rmparent"]
  /\ UNCHANGED <<wvars, cvars, uvars, rvars, mk, pf, yvars>>

\* a removal that goes by the listing read before it
RemoveTrustsListing(seenEmpty, emptyNow) == seenEmpty

\* os.Remove of a directory is one rmdir: it removes a directory that is
\* empty when it runs, whatever was listed before
RemoveSucceeds(seenEmpty, emptyNow) == emptyNow

\* os.Remove(dirPath) of the directory listed empty: when it fails the walk
\* ends, else cleanupEmptyParentDirs is called on filepath.Dir(dirPath)
RemoveParent ==
  /\ cln.pc = "rmparent"
  /\ \E ok \in BOOLEAN :
       cln' = IF ~ok \/ ~RemoveSucceeds(TRUE, IsEmpty(cln, Clean(cln.cur)))
                THEN [cln EXCEPT !.pc = "done", !.ret = "nil", !.failed = TRUE]
              ELSE [cln EXCEPT !.pc = "parents", !.cur = Dir(cln.cur),
                               !.dirs = @ \ {Clean(cln.cur)},
                               !.removed = Append(@, Clean(cln.cur))]
  /\ UNCHANGED <<wvars, cvars, uvars, rvars, mk, pf, yvars>>

\* the archive task of another entry, of the same author, category and month
\* and another hash: its os.MkdirAll makes its archive directory with the
\* missing directories above it, its tool writes a file there
OtherDownload ==
  /\ cln.pc \notin {"idle", "done"}
  /\ cln.ofiles = 0
  /\ cln' = [cln EXCEPT !.dirs = @ \cup Ancestors(cln.other), !.ofiles = 1]
  /\ UNCHANGED <<wvars, cvars, uvars, rvars, mk, pf, yvars>>

\* cleanupDirectory is called once more on the same directory (by the
\* archive task of a second entry with the same hash, category and month)
CleanupDirectoryAgain ==
  /\ cln.pc = "done"
  /\ cln.calls < MaxCleanups
  /\ cln' = [cln EXCEPT !.pc = "stat", !.calls = @ + 1, !.ret = "none",
                        !.entries = 0, !.skips = 0, !.cur = <<>>]
  /\ UNCHANGED <<wvars, cvars, uvars, rvars, mk, pf, yvars>>

\* another archive task's os.MkdirAll puts the directory of its own post
\* into directory d of the tree
OtherMkdirAll ==
  /\ cln.pc \notin {"idle", "done"}
  /\ Cardinality(cln.busy) < MaxSiblings
  /\ \E d \in (cln.dirs \ {Clean(cln.dir)}) \ cln.busy :
       cln' = [cln EXCEPT !.busy = @ \cup {d}]
  /\ UNCHANGED <<wvars, cvars, uvars, rvars, mk, pf, yvars>>

\* -------------------------------------------- MinifluxService.MarkEntryAsRead

MaxRetries == 5
BackoffSeconds == 2
StatusNoContent == 204

\* responses the Miniflux API gives to PUT /entries
Statuses == {200, StatusNoContent, 401, 500}
EntryIDs == 1..MaxEntryID

NoMark ==
  [pc |-> "idle", conf |-> "ok", entry |-> 0, attempt |-> 0, sent |-> 0,
   waits |-> <<>>, status |-> 0, body |-> "none", ret |-> "none"]

\* time.Sleep(time.Duration(attempt) * 2 * time.Second), in seconds
BackoffFlat(attempt) == BackoffSeconds
Backoff(attempt) == attempt * BackoffSeconds

\* up to the loop: no client, nothing sent and nil returned; a request that
\* cannot be built ends the call with an error; else attempt starts at 1
BuildRequest ==
  /\ mk.pc = "start"
  /\ mk' = IF mk.conf = "noclient" THEN [mk EXCEPT !.pc = "done", !.ret = "nil"]
           ELSE IF mk.conf = "badurl" THEN [mk EXCEPT !.pc = "done", !.ret = "err"]
           ELSE [mk EXCEPT !.pc = "do", !.attempt = 1]
  /\ UNCHANGED <<wvars, cvars, uvars, rvars, cln, pf, yvars>>

\* s.client.Do(req): a response breaks the loop; a transport error is
\* followed by a sleep while attempt < maxRetries, and ends the loop, hence
\* the call, at the last attempt
DoRequest ==
  /\ mk.pc = "do"
  /\ mk.attempt <= MaxRetries
  /\ \E o \in {0} \cup Statuses :
       mk' = IF o # 0
               THEN [mk EXCEPT !.sent = @ + 1, !.status = o, !.pc = "read"]
             ELSE IF mk.attempt < MaxRetries
               THEN [mk EXCEPT !.sent = @ + 1, !.pc = "sleep"]
             ELSE [mk EXCEPT !.sent = @ + 1, !.attempt = @ + 1,
                             !.pc = "done", !.ret = "err"]
  /\ UNCHANGED <<wvars, cvars, uvars, rvars, cln, pf, yvars>>

\* time.Sleep, the request built anew, attempt++
Sleep ==
  /\ mk.pc = "sleep"
  /\ mk' = [mk EXCEPT !.waits = Append(@, Backoff(mk.attempt)),
                      !.attempt = @ + 1, !.pc = "do"]
  /\ UNCHANGED <<wvars, cvars, uvars, rvars, cln, pf, yvars>>

\* io.ReadAll of the body, whose failure is logged, then the status check
ReadResponse ==
  /\ mk.pc = "read"
  /\ \E bodyRead \in BOOLEAN :
       mk' = [mk EXCEPT !.pc = "done",
                        !.body = IF bodyRead THEN "read" ELSE "lost",
                        !.ret = IF mk.status # StatusNoContent THEN "err" ELSE "nil"]
  /\ UNCHANGED <<wvars, cvars, uvars, rvars, cln, pf, yvars>>

\* ----------------------------------------------------------- buildArchivePath

\* characters of author and category names: letters, a digit, the two kept
\* signs, a space, a separator, and a letter and a digit outside ASCII
NameChars == {"a", "Z", "7", "_", "-", " ", "/", "U+00E9", "U+0663"}

\* the names of at most MaxName characters
Names == UNION {[1..n -> NameChars] : n \in 0..MaxName}

NoPath ==
  [pc |-> "idle", base |-> <<>>, author |-> <<>>, category |-> <<>>,
   year |-> 0, month |-> 0, hash |-> <<>>,
   sanitized |-> <<>>, path |-> <<>>, again |-> <<>>]

\* utils.SanitizeForPath(author)
CallSanitize ==
  /\ pf.pc = "start"
  /\ pf' = [pf EXCEPT !.pc = "sanitized", !.sanitized = SanitizeForPath(pf.author)]
  /\ UNCHANGED <<wvars, cvars, uvars, rvars, cln, mk, yvars>>

\* buildArchivePath on the arguments drawn
CallBuild ==
  /\ pf.pc = "sanitized"
  /\ pf' = [pf EXCEPT !.pc = "built",
                      !.path = buildArchivePath(pf.base, pf.author, pf.category,
                                                pf.year, pf.month, pf.hash)]
  /\ UNCHANGED <<wvars, cvars, uvars, rvars, cln, mk, yvars>>

\* buildArchivePath once more on the same arguments
CallBuildAgain ==
  /\ pf.pc = "built"
  /\ pf' = [pf EXCEPT !.pc = "done",
                      !.again = buildArchivePath(pf.base, pf.author, pf.category,
                                                 pf.year, pf.month, pf.hash)]
  /\ UNCHANGED <<wvars, cvars, uvars, rvars, cln, mk, yvars>>

\* ------------------------------------------- processEntry: the publish time

\* time.Parse(time.RFC3339, value): "YYYY-MM-DDTHH:MM:SS" followed by "Z" or
\* by a numeric offset; the year and month of the time in its own offset, or
\* an error (fractions of a second, which the layout also admits, are not
\* among the values used here)
ParseRFC3339(v) ==
  LET shaped ==
        /\ Len(v) \in {20, 25}
        /\ IsNumeral(SubSeq(v, 1, 4), 4) /\ v[5] = "-"
        /\ IsNumeral(SubSeq(v, 6, 7), 2) /\ v[8] = "-"
        /\ IsNumeral(SubSeq(v, 9, 10), 2) /\ v[11] = "T"
        /\ IsNumeral(SubSeq(v, 12, 13), 2) /\ v[14] = ":"
        /\ IsNumeral(SubSeq(v, 15, 16), 2) /\ v[17] = ":"
        /\ IsNumeral(SubSeq(v, 18, 19), 2)
        /\ IF Len(v) = 20 THEN v[20] = "Z"
           ELSE /\ v[20] \in {"+", "-"}
                /\ IsNumeral(SubSeq(v, 21, 22), 2) /\ v[23] = ":"
                /\ IsNumeral(SubSeq(v, 24, 25), 2)
      ranged ==
        /\ Atoi(SubSeq(v, 6, 7)) \in 1..12
        /\ Atoi(SubSeq(v, 9, 10)) \in 1..31
        /\ Atoi(SubSeq(v, 12, 13)) < 24
        /\ Atoi(SubSeq(v, 15, 16)) < 60
        /\ Atoi(SubSeq(v, 18, 19)) < 60
  IN  IF shaped /\ ranged
        THEN [err |-> "nil", year |-> Atoi(SubSeq(v, 1, 4)),
              month |-> Atoi(SubSeq(v, 6, 7))]
        ELSE [err |-> "err", year |-> 1, month |-> 1]

\* values of entry.PublishedAt: two timestamps in RFC3339, an empty value, a
\* date without a time, a month out of range, another layout
PublishedAts == {<<"2", "0", "2", "4", "-", "0", "3", "-", "1", "5", "T", "1", "0", ":", "0", "0", ":", "0", "0", "Z">>,
                 <<"2", "0", "2", "3", "-", "1", "2", "-", "3", "1", "T", "2", "3", ":", "5", "9", ":", "5", "9", "+", "0", "9", ":", "0", "0">>,
                 <<>>,
                 <<"2", "0", "2", "4", "-", "0", "3", "-", "1", "5">>,
                 <<"2", "0", "2", "4", "-", "1", "3", "-", "0", "1", "T", "0", "0", ":", "0", "0", ":", "0", "0", "Z">>,
                 <<"1", "5", " ", "M", "a", "r", " ", "2", "0", "2", "4", " ", "1", "0", ":", "0", "0">>}

\* time.Now() at tick k of the clock: December 2024 at tick 0, then a month
\* later at every tick
NowAt(k) == [year |-> 2024 + ((11 + k) \div 12), month |-> ((11 + k) % 12) + 1]

NoTime == [year |-> 0, month |-> 0]

NoEntry ==
  [pc |-> "idle", input |-> <<>>, tick |-> 0, parsed |-> "no", readAt |-> 0,
   publishedAt |-> NoTime, post |-> NoTime, created |-> "no", mark |-> "no",
   taskAt |-> NoTime, dir |-> <<>>, res |-> "run"]

\* time.Parse; on error publishedAt = time.Now()
ParsePublishedAt ==
  /\ pe.pc = "parse"
  /\ LET t == ParseRFC3339(pe.input)
     IN  pe' = IF t.err = "nil"
                 THEN [pe EXCEPT !.pc = "create", !.parsed = "nil",
                                 !.publishedAt = [year |-> t.year, month |-> t.month]]
                 ELSE [pe EXCEPT !.pc = "create", !.parsed = "err",
                                 !.readAt = pe.tick,
                                 !.publishedAt = NowAt(pe.tick)]
  /\ UNCHANGED <<wvars, cvars, uvars, rvars, cln, mk, pf, s3, hb>>

\* post := &model.Post{... PublishedAt: publishedAt ...}; postRepo.Create(post)
PersistPost ==
  /\ pe.pc = "create"
  /\ \E ok \in BOOLEAN :
       pe' = IF ok
               THEN [pe EXCEPT !.pc = "mark", !.created = "nil",
                               !.post = pe.publishedAt]
               ELSE [pe EXCEPT !.pc = "done", !.created = "err", !.res = "err"]
  /\ UNCHANGED <<wvars, cvars, uvars, rvars, cln, mk, pf, s3, hb>>

\* minifluxService.MarkEntryAsRead(entry.ID), which takes its time
MarkRead ==
  /\ pe.pc = "mark"
  /\ \E e \in {"nil", "err"} :
       pe' = [pe EXCEPT !.pc = "launch", !.mark = e]
  /\ UNCHANGED <<wvars, cvars, uvars, rvars, cln, mk, pf, s3, hb>>

\* a launch that reads the clock again
LaunchTimeNow(c) == NowAt(c.tick)

\* the publishedAt argument of go h.archiveService.DownloadContent(...)
LaunchTime(c) == c.publishedAt

\* go DownloadContent(entry.URL, entry.Author, feed.Category.Title,
\* entry.Title, publishedAt, entry.Hash), whose archive directory is
\* buildArchivePath(author, categoryTitle, publishedAt, hash)
StartDownload ==
  /\ pe.pc = "launch"
  /\ pe' = [pe EXCEPT !.pc = "done", !.res = "nil",
                      !.taskAt = LaunchTime(pe),
                      !.dir = buildArchivePath(DataArchive, Jane, Patreon,
                                               LaunchTime(pe).year,
                                               LaunchTime(pe).month, Abc123)]
  /\ UNCHANGED <<wvars, cvars, uvars, rvars, cln, mk, pf, s3, hb>>

\* the clock goes on while the call runs
Tick ==
  /\ pe.pc \notin {"idle", "done"}
  /\ pe.tick < MaxTicks
  /\ pe' = [pe EXCEPT !.tick = @ + 1]
  /\ UNCHANGED <<wvars, cvars, uvars, rvars, cln, mk, pf, s3, hb>>

\* ------------------------------------------- ChibisafeService.uploadFileS3

\* identifiers the service hands out with a signed URL
Identifiers == {"id-1", "id-2"}

\* a value of the "uuid" key of a JSON object: no such key or not a string
\* ("absent"), the empty string, or an identifier
UuidValues(id) == {"absent", "", id}

\* bodies of a 200 answer of POST /api/upload/process: the uuid of the "file"
\* object ("absent" also when there is no such object), the top-level uuid,
\* and the uuids of the elements of the "files" list (empty when there is no
\* list)
ProcessResponses ==
  [file : UuidValues("u-nested"), uuid : UuidValues("u-top"),
   files : {<<>>, <<"absent">>, <<"">>, <<"u-list">>, <<"", "u-second">>,
            <<"u-list", "u-second">>}]

NoResponse == [file |-> "absent", uuid |-> "absent", files |-> <<>>]

\* an extraction that looks at the top-level uuid first
ExtractTopFirst(resp) ==
  IF resp.uuid \notin {"absent", ""} THEN resp.uuid
  ELSE IF resp.file \notin {"absent", ""} THEN resp.file
  ELSE IF resp.files # <<>> /\ resp.files[1] # "absent" THEN resp.files[1]
  ELSE ""

\* the fileUUID of processUpload: the uuid of the "file" object when it is a
\* string; if that left it empty, the top-level uuid when it is a string; if
\* that left it empty, the uuid of the first element of "files"
ExtractUUID(resp) ==
  LET nested == IF resp.file # "absent" THEN resp.file ELSE ""
      top == IF nested # "" THEN nested
             ELSE IF resp.uuid # "absent" THEN resp.uuid ELSE ""
  IN  IF top # "" THEN top
      ELSE IF resp.files # <<>> /\ resp.files[1] # "absent" THEN resp.files[1]
      ELSE ""

NoSigned ==
  [pc |-> "idle", album |-> "", requests |-> <<>>, sign |-> "no",
   ident |-> "", put |-> "no", stored |-> FALSE, proc |-> "no",
   sentIdent |-> "", sentAlbum |-> "", resp |-> NoResponse, uuid |-> "",
   ret |-> "none"]

\* an uploadFileS3 that goes on to processUpload whatever uploadToS3 returned
AfterPutAlways(e) == "process"

\* uploadToS3 failed: uploadFileS3 returns the error; else processUpload
AfterPut(e) == IF e = "err" THEN "done" ELSE "process"

\* os.Stat(filePath): its error ends the call before any request
StatFile ==
  /\ s3.pc = "stat"
  /\ \E ok \in BOOLEAN :
       s3' = IF ok THEN [s3 EXCEPT !.pc = "sign"]
             ELSE [s3 EXCEPT !.pc = "done", !.ret = "err"]
  /\ UNCHANGED <<wvars, cvars, uvars, rvars, cln, mk, pf, pe, hb>>

\* getSignedURL: POST /api/upload; a transport error, a status other than
\* 200 and 201 or an undecodable body is an error; else the URL and the
\* identifier of the answer are returned
GetSignedURL ==
  /\ s3.pc = "sign"
  /\ \/ s3' = [s3 EXCEPT !.requests = Append(@, "sign"), !.sign = "err",
                         !.pc = "done", !.ret = "err"]
     \/ \E id \in Identifiers :
          s3' = [s3 EXCEPT !.requests = Append(@, "sign"), !.sign = "nil",
                           !.ident = id, !.pc = "put"]
  /\ UNCHANGED <<wvars, cvars, uvars, rvars, cln, mk, pf, pe, hb>>

\* uploadToS3: the file could not be opened (nothing is sent); or PUT of the
\* bytes to the signed URL, which fails (transport error, status other than
\* 200 and 201: nothing stored) or stores them
UploadToS3 ==
  /\ s3.pc = "put"
  /\ \/ s3' = [s3 EXCEPT !.put = "err", !.pc = AfterPut("err"),
                         !.ret = IF AfterPut("err") = "done" THEN "err" ELSE @]
     \/ s3' = [s3 EXCEPT !.requests = Append(@, "put"), !.put = "err",
                         !.pc = AfterPut("err"),
                         !.ret = IF AfterPut("err") = "done" THEN "err" ELSE @]
     \/ s3' = [s3 EXCEPT !.requests = Append(@, "put"), !.put = "nil",
                         !.stored = TRUE, !.pc = AfterPut("nil")]
  /\ UNCHANGED <<wvars, cvars, uvars, rvars, cln, mk, pf, pe, hb>>

\* processUpload(identifier, filename, contentType, albumUUID): POST
\* /api/upload/process with the identifier, and the album in a header when
\* there is one; a transport error, an unreadable body, a status other than
\* 200 and 201 or an undecodable body is an error; else the file identifier
\* is extracted, and an empty one is an error
ProcessUpload ==
  /\ s3.pc = "process"
  /\ \/ s3' = [s3 EXCEPT !.requests = Append(@, "process"),
                         !.sentIdent = s3.ident, !.sentAlbum = s3.album,
                         !.proc = "err", !.pc = "done", !.ret = "err"]
     \/ \E resp \in ProcessResponses :
          s3' = [s3 EXCEPT !.requests = Append(@, "process"),
                           !.sentIdent = s3.ident, !.sentAlbum = s3.album,
                           !.proc = "answered", !.resp = resp,
                           !.uuid = ExtractUUID(resp), !.pc = "done",
                           !.ret = IF ExtractUUID(resp) = "" THEN "err" ELSE "nil"]
  /\ UNCHANGED <<wvars, cvars, uvars, rvars, cln, mk, pf, pe, hb>>

\* ------------------------------------- HandleWebhook: the entries of a batch

\* the call processEntry(payload.Feed, entry) made for one entry
NoEntryCall == [pc |-> "wait", obs |-> "no", created |-> "no", mark |-> "no",
                launched |-> FALSE, notif |-> "no", paused |-> FALSE,
                res |-> "none"]

NoBatch == [pc |-> "idle", payload |-> <<>>, next |-> 0, calls |-> <<>>,
            rows |-> <<>>, launches |-> <<>>, checks |-> <<>>]

\* the payloads of up to MaxBatch entries, each entry taken by its hash
Payloads == UNION { [1..n -> Hashes] : n \in 0..MaxBatch }

\* the call for entry i ends with res
EntryReturns(i, c, res) ==
  [hb EXCEPT !.calls[i] = [c EXCEPT !.pc = "returned", !.res = res]]

\* a loop that starts each processEntry in a goroutine of its own
MayCallAtOnce(b, i) == TRUE

\* for _, entry := range payload.Entries { h.processEntry(...) }: the call
\* for entry i is made when the call for entry i - 1 has returned
MayCall(b, i) == IF i = 1 THEN TRUE ELSE b.calls[i - 1].pc = "returned"

\* the loop reaches entry i and calls processEntry for it
CallProcessEntry ==
  /\ hb.pc = "loop"
  /\ hb.next <= Len(hb.payload)
  /\ MayCall(hb, hb.next)
  /\ hb' = [hb EXCEPT !.calls[hb.next].pc = "exists", !.next = @ + 1]
  /\ UNCHANGED <<wvars, cvars, uvars, rvars, cln, mk, pf, pe, s3>>

\* postRepo.ExistsByHash(entry.Hash): a query error is returned, an existing
\* row ends the call with nil
CheckEntryExists(i) ==
  /\ i <= Len(hb.calls)
  /\ hb.calls[i].pc = "exists"
  /\ \E dbok \in BOOLEAN :
       LET checked == [hb EXCEPT !.checks = Append(@, i)]
       IN  hb' = IF ~dbok
                   THEN [checked EXCEPT !.calls[i] =
                           [@ EXCEPT !.pc = "returned", !.obs = "err", !.res = "err"]]
                 ELSE IF HashStored(hb.rows, hb.payload[i])
                   THEN [checked EXCEPT !.calls[i] =
                           [@ EXCEPT !.pc = "returned", !.obs = "present", !.res = "nil"]]
                 ELSE [checked EXCEPT !.calls[i] =
                         [@ EXCEPT !.pc = "create", !.obs = "absent"]]
  /\ UNCHANGED <<wvars, cvars, uvars, rvars, cln, mk, pf, pe, s3>>

\* postRepo.Create(post): on error processEntry returns it
CreateEntryPost(i) ==
  /\ i <= Len(hb.calls)
  /\ hb.calls[i].pc = "create"
  /\ \E o \in CreateOutcomes(hb.rows, hb.payload[i]) :
       hb' = IF o[2] = "nil"
               THEN [hb EXCEPT !.rows = o[1],
                               !.calls[i] = [@ EXCEPT !.pc = "mark", !.created = "nil"]]
               ELSE EntryReturns(i, [hb.calls[i] EXCEPT !.created = o[2]], "err")
  /\ UNCHANGED <<wvars, cvars, uvars, rvars, cln, mk, pf, pe, s3>>

\* minifluxService.MarkEntryAsRead(entry.ID), its error only logged, then
\* go h.archiveService.DownloadContent(...)
MarkAndLaunchEntry(i) ==
  /\ i <= Len(hb.calls)
  /\ hb.calls[i].pc = "mark"
  /\ \E e \in {"nil", "err"} :
       hb' = [hb EXCEPT !.launches = Append(@, hb.payload[i]),
                        !.calls[i] = [@ EXCEPT !.pc = "notify", !.mark = e,
                                               !.launched = TRUE]]
  /\ UNCHANGED <<wvars, cvars, uvars, rvars, cln, mk, pf, pe, s3>>

\* if h.discordService != nil { SendEmbed(feed, entry) }: a failed request
\* returns an error that processEntry logs; a 200 or 204 leads to the pause
NotifyEntry(i) ==
  /\ i <= Len(hb.calls)
  /\ hb.calls[i].pc = "notify"
  /\ \E e \in {"nil", "err"} :
       /\ ~cfg.discord => e = "nil"
       /\ hb' = IF ~cfg.discord THEN EntryReturns(i, hb.calls[i], "nil")
                ELSE IF e = "err"
                  THEN EntryReturns(i, [hb.calls[i] EXCEPT !.notif = "err"], "nil")
                ELSE [hb EXCEPT !.calls[i] = [@ EXCEPT !.pc = "pause", !.notif = "nil"]]
  /\ UNCHANGED <<wvars, cvars, uvars, rvars, cln, mk, pf, pe, s3>>

\* time.Sleep(5 * time.Second), then SendEmbed and processEntry return nil
PauseAfterNotify(i) ==
  /\ i <= Len(hb.calls)
  /\ hb.calls[i].pc = "pause"
  /\ hb' = EntryReturns(i, [hb.calls[i] EXCEPT !.paused = TRUE], "nil")
  /\ UNCHANGED <<wvars, cvars, uvars, rvars, cln, mk, pf, pe, s3>>

\* w.WriteHeader(http.StatusOK) after the loop
RespondToBatch ==
  /\ hb.pc = "loop"
  /\ hb.next > Len(hb.payload)
  /\ MayCall(hb, hb.next)
  /\ hb' = [hb EXCEPT !.pc = "done"]
  /\ UNCHANGED <<wvars, cvars, uvars, rvars, cln, mk, pf, pe, s3>>

\* ----------------------------------------------------------- specifications

SettingsIdle ==
  /\ cache = "nil"
  /\ gpc = [g \in Callers |-> "idle"]
  /\ gloc = [g \in Callers |-> NoGet]
  /\ gcalls = [g \in Callers |-> 0]
  /\ requests = 0
  /\ writes = 0
  /\ sent = [g \in Callers |-> <<>>]

ResolversIdle ==
  /\ remote = <<>>
  /\ rsv = [r \in Resolvers |-> NoResolve]

CleanupIdle == cln = NoCleanup

LaterIdle == pe = NoEntry /\ s3 = NoSigned /\ hb = NoBatch

ExtrasIdle == CleanupIdle /\ mk = NoMark /\ pf = NoPath /\ LaterIdle

OthersIdle == up = NoUpload /\ ResolversIdle /\ ExtrasIdle

RequestsIdle ==
  /\ posts = <<>>
  /\ hpc = [r \in Handlers |-> "idle"]
  /\ left = [r \in Handlers |-> 0]
  /\ todo = [r \in Handlers |-> 0]
  /\ loc = [r \in Handlers |-> NoCall]
  /\ status = [r \in Handlers |-> 0]
  /\ marks = [h \in Hashes |-> 0]
  /\ notifs = [h \in Hashes |-> 0]
  /\ tasks = <<>>
  /\ fs = [h \in Hashes |-> [exists |-> FALSE, files |-> {}]]

HandlerStep(r) ==
  \/ Receive(r)
  \/ Respond(r)
  \/ ExistsByHash(r)
  \/ Create(r)
  \/ MarkEntryAsRead(r)
  \/ Launch(r)
  \/ SendEmbed(r)

TaskStep(t) ==
  \/ LookPath(t)
  \/ MkdirAll(t)
  \/ ExecuteGalleryDL(t)
  \/ UploadFiles(t)
  \/ CleanupDirectory(t)

\* Concurrent webhook requests, with or without a notifier. DownloadContent
\* takes its arguments by value and touches only the file system and the
\* remote asset service, none of which a request handler reads, so the steps
\* of the launched archive tasks are left to SpecArchive.
Init ==
  /\ cfg \in [discord : BOOLEAN, chibisafe : {FALSE}, cleanup : {FALSE}]
  /\ RequestsIdle
  /\ SettingsIdle
  /\ OthersIdle

Next == \E r \in Handlers : HandlerStep(r)

Spec == Init /\ [][Next]_vars

\* One webhook request and the archive tasks it launches, stage by stage,
\* under every configuration.
InitArchive ==
  /\ cfg \in [discord : BOOLEAN, chibisafe : BOOLEAN, cleanup : BOOLEAN]
  /\ RequestsIdle
  /\ SettingsIdle
  /\ OthersIdle

NextArchive ==
  \/ HandlerStep(1)
  \/ \E t \in TaskIds : TaskStep(t)

SpecArchive == InitArchive /\ [][NextArchive]_vars

\* Goroutines (archive tasks uploading files) calling uploadFile, and through
\* it getSettings, on the one ChibisafeService of the process.
InitSettings ==
  /\ cfg = [discord |-> FALSE, chibisafe |-> TRUE, cleanup |-> FALSE]
  /\ RequestsIdle
  /\ SettingsIdle
  /\ OthersIdle

NextSettings ==
  \E g \in Callers :
    CheckCache(g) \/ FetchSettings(g) \/ StoreSettings(g) \/ RunStrategy(g)

SpecSettings == InitSettings /\ [][NextSettings]_vars

\* One UploadFiles call on a configured service, for every title and
\* directory listing within the bounds.
InitUpload ==
  /\ cfg = [discord |-> FALSE, chibisafe |-> TRUE, cleanup |-> FALSE]
  /\ RequestsIdle
  /\ SettingsIdle
  /\ ResolversIdle
  /\ ExtrasIdle
  /\ \E title \in Titles, listing \in Listings :
       up = [NoUpload EXCEPT !.pc = "album", !.title = title, !.listing = listing]

NextUpload ==
  GetOrCreateAlbum \/ GetOrCreateTag \/ ReadDir \/ UploadFile \/ FinishUpload

SpecUpload == InitUpload /\ [][NextUpload]_vars

\* One archive task from the end of its download on, under every
\* configuration of the uploader and of cleanup-after-upload: the directory
\* holds up to MaxTaskEntries entries, UploadFiles runs step by step, then
\* the cleanup.
InitTask ==
  /\ cfg \in [discord : {FALSE}, chibisafe : BOOLEAN, cleanup : BOOLEAN]
  /\ RequestsIdle
  /\ SettingsIdle
  /\ ResolversIdle
  /\ ExtrasIdle
  /\ \E listing \in {l \in Listings : Len(l) <= MaxTaskEntries} :
       up = [NoUpload EXCEPT !.pc = "task", !.title = <<"a", "-", "1">>,
                             !.listing = listing]

NextTask ==
  \/ CheckConfigured
  \/ GetOrCreateAlbum \/ GetOrCreateTag \/ ReadDir \/ UploadFile \/ FinishUpload
  \/ CleanupAfterUpload

SpecTask == InitTask /\ [][NextTask]_vars

\* One webhook request whose payload holds up to MaxBatch entries, on a posts
\* table that is empty or already holds h1.
InitBatch ==
  /\ cfg \in [discord : BOOLEAN, chibisafe : {FALSE}, cleanup : {FALSE}]
  /\ RequestsIdle
  /\ SettingsIdle
  /\ up = NoUpload
  /\ ResolversIdle
  /\ CleanupIdle /\ mk = NoMark /\ pf = NoPath /\ pe = NoEntry /\ s3 = NoSigned
  /\ \E payload \in Payloads, rows \in {<<>>, <<"h1">>} :
       hb = [NoBatch EXCEPT !.pc = "loop", !.payload = payload, !.next = 1,
                            !.calls = [i \in 1..Len(payload) |-> NoEntryCall],
                            !.rows = rows]

NextBatch ==
  \/ CallProcessEntry
  \/ \E i \in 1..MaxBatch :
       \/ CheckEntryExists(i) \/ CreateEntryPost(i) \/ MarkAndLaunchEntry(i)
       \/ NotifyEntry(i) \/ PauseAfterNotify(i)
  \/ RespondToBatch

SpecBatch == InitBatch /\ [][NextBatch]_vars

\* Goroutines (archive tasks in UploadFiles) resolving names on a remote
\* service that starts empty or already holds an entity named Foo.
InitResolve ==
  /\ cfg = [discord |-> FALSE, chibisafe |-> TRUE, cleanup |-> FALSE]
  /\ RequestsIdle
  /\ SettingsIdle
  /\ up = NoUpload
  /\ remote \in {<<>>, <<[name |-> Foo, id |-> 1]>>}
  /\ rsv = [r \in Resolvers |-> NoResolve]
  /\ ExtrasIdle

NextResolve ==
  \E r \in Resolvers : StartResolve(r) \/ SearchEntities(r) \/ CreateEntity(r)

SpecResolve == InitResolve /\ [][NextResolve]_vars

\* cleanupDirectory calls on the archive directory of a post, for every
\* base directory of BaseDirs, with the directory made or not, holding up to
\* MaxRegular regular files and MaxSubdirs subdirectories, empty or not, in a
\* tree where the directories of other posts appear while the call runs.
InitCleanup ==
  /\ cfg = [discord |-> FALSE, chibisafe |-> TRUE, cleanup |-> TRUE]
  /\ RequestsIdle
  /\ SettingsIdle
  /\ up = NoUpload
  /\ ResolversIdle
  /\ mk = NoMark
  /\ pf = NoPath
  /\ LaterIdle
  /\ \E base \in BaseDirs, made \in BOOLEAN, n \in 0..MaxRegular,
        d \in 0..MaxSubdirs, full \in 0..MaxSubdirs :
       LET dir == buildArchivePath(base, Jane, Patreon, 2024, 3, Abc123)
           tree == IF made THEN Ancestors(dir) ELSE Ancestors(Clean(base))
       IN  /\ full <= d
           /\ ~made => n = 0 /\ d = 0
           /\ cln = [NoCleanup EXCEPT !.pc = "stat", !.base = base,
                                      !.dir = dir, !.dirs = tree, !.calls = 1,
                                      !.other = buildArchivePath(base, Jane, Patreon,
                                                                 2024, 3, Def456),
                                      !.files = n, !.subs = d, !.inner = full]

NextCleanup ==
  \/ StatDirectory
  \/ ReadDirectory
  \/ RemoveEntry
  \/ RemoveDirectory
  \/ CleanupEmptyParentDirs
  \/ RemoveParent
  \/ CleanupDirectoryAgain
  \/ OtherMkdirAll
  \/ OtherDownload

SpecCleanup == InitCleanup /\ [][NextCleanup]_vars

\* One MarkEntryAsRead call, on a service with or without a client and API
\* URL. The call runs in the goroutine of its request handler: each of its
\* steps ends (client.Do within the 30 s Timeout of the client, time.Sleep
\* after its duration), so a step that can be taken is taken.
InitMark ==
  /\ cfg = [discord |-> FALSE, chibisafe |-> FALSE, cleanup |-> FALSE]
  /\ RequestsIdle
  /\ SettingsIdle
  /\ up = NoUpload
  /\ ResolversIdle
  /\ CleanupIdle
  /\ pf = NoPath
  /\ LaterIdle
  /\ \E conf \in {"noclient", "badurl", "ok"}, id \in EntryIDs :
       mk = [NoMark EXCEPT !.pc = "start", !.conf = conf, !.entry = id]

NextMark == BuildRequest \/ DoRequest \/ Sleep \/ ReadResponse

SpecMark == InitMark /\ [][NextMark]_vars /\ WF_vars(NextMark)

\* SanitizeForPath and buildArchivePath applied, the latter twice, to
\* arguments drawn from: every author name of Names with the other arguments
\* of the documented example; and, for the authors Jane and "", every base
\* directory, a present and an absent category, a year of four and of three
\* digits, and every month.
InitPath ==
  /\ cfg = [discord |-> FALSE, chibisafe |-> FALSE, cleanup |-> FALSE]
  /\ RequestsIdle
  /\ SettingsIdle
  /\ up = NoUpload
  /\ ResolversIdle
  /\ CleanupIdle
  /\ mk = NoMark
  /\ LaterIdle
  /\ \/ \E author \in Names :
          pf = [NoPath EXCEPT !.pc = "start", !.base = DataArchive,
                              !.author = author, !.category = Patreon,
                              !.year = 2024, !.month = 3, !.hash = Abc123]
     \/ \E base \in BaseDirs, author \in {Jane, <<>>}, category \in {Patreon, <<>>},
           year \in {2024, 987}, month \in 1..12 :
          pf = [NoPath EXCEPT !.pc = "start", !.base = base,
                              !.author = author, !.category = category,
                              !.year = year, !.month = month, !.hash = Abc123]

NextPath == CallSanitize \/ CallBuild \/ CallBuildAgain

SpecPath == InitPath /\ [][NextPath]_vars

\* One processEntry call of an entry not seen before, for every value of
\* PublishedAts, while the clock advances.
InitEntry ==
  /\ cfg = [discord |-> FALSE, chibisafe |-> FALSE, cleanup |-> FALSE]
  /\ RequestsIdle
  /\ SettingsIdle
  /\ up = NoUpload
  /\ ResolversIdle
  /\ CleanupIdle
  /\ mk = NoMark
  /\ pf = NoPath
  /\ s3 = NoSigned
  /\ hb = NoBatch
  /\ \E v \in PublishedAts :
       pe = [NoEntry EXCEPT !.pc = "parse", !.input = v]

NextEntry == ParsePublishedAt \/ PersistPost \/ MarkRead \/ StartDownload \/ Tick

SpecEntry == InitEntry /\ [][NextEntry]_vars

\* One uploadFileS3 call, with and without an album.
InitSigned ==
  /\ cfg = [discord |-> FALSE, chibisafe |-> TRUE, cleanup |-> FALSE]
  /\ RequestsIdle
  /\ SettingsIdle
  /\ up = NoUpload
  /\ ResolversIdle
  /\ CleanupIdle
  /\ mk = NoMark
  /\ pf = NoPath
  /\ pe = NoEntry
  /\ hb = NoBatch
  /\ \E album \in {"", "alb-1"} :
       s3 = [NoSigned EXCEPT !.pc = "stat", !.album = album]

NextSigned == StatFile \/ GetSignedURL \/ UploadToS3 \/ ProcessUpload

SpecSigned == InitSigned /\ [][NextSigned]_vars

\* ------------------------------------------------------------------ claims

\* request r makes a step that starts a processEntry call
Starts(r) == hpc[r] = "loop" /\ todo'[r] < todo[r]

\* the call recorded in l wrote nothing, marked nothing, launched nothing and
\* notified nobody
NoEffects(l) ==
  l.created \in {"no", "unique", "io"} /\ l.mark = "no" /\ l.task = 0 /\ l.notif = "no"

\* C1 as stated: a processEntry call for a hash whose record is already stored
\* returns success and writes nothing to the dedup store, marks nothing as
\* read, launches no archive task and sends no notification.
C1_StoredHashReturnsSuccess ==
  [][\A r \in Handlers :
       (Starts(r) /\ HashStored(posts, loc'[r].hash))
         => /\ loc'[r].res = "nil"
            /\ posts' = posts /\ marks' = marks
            /\ tasks' = tasks /\ notifs' = notifs]_vars

\* C1: a processEntry call for a hash whose record is already stored returns
\* at once, having written nothing to the dedup store, marked nothing as read,
\* launched no archive task and sent no notification; it returns success when
\* its lookup finds the record and the lookup's error when the lookup fails.
C1_StoredHashNoOp ==
  [][\A r \in Handlers :
       (Starts(r) /\ HashStored(posts, loc'[r].hash))
         => /\ hpc'[r] = "loop"
            /\ loc'[r].obs \in {"present", "err"}
            /\ loc'[r].res = (IF loc'[r].obs = "present" THEN "nil" ELSE "err")
            /\ NoEffects(loc'[r])
            /\ posts' = posts /\ marks' = marks
            /\ tasks' = tasks /\ notifs' = notifs]_vars

\* one request alone: its first entry was persisted and notified or not, its
\* second entry carries the same hash and its call returned success
C1_SecondCallReturned ==
  \E r \in Handlers :
    /\ \A q \in Handlers \ {r} : hpc[q] = "idle"
    /\ hpc[r] = "loop" /\ left[r] = 0 /\ Len(tasks) = 1
    /\ loc[r].obs = "present" /\ loc[r].res = "nil"
    /\ posts = <<loc[r].hash>> /\ tasks[1].hash = loc[r].hash

\* C2: the posts table never holds two rows with the same hash: a Create for
\* a hash that is already stored fails and leaves the table as it was.
C2_OneRowPerHash ==
  /\ [](\A h \in Hashes : Cardinality(Rows(h)) <= 1)
  /\ [][\A r \in Handlers :
          (hpc[r] = "create" /\ hpc'[r] # "create" /\ HashStored(posts, loc[r].hash))
            => /\ posts' = posts
               /\ loc'[r].created = "unique"
               /\ loc'[r].res = "err"]_vars

\* a Create was refused for a hash another request stored in the meantime
C2_CreateRefused ==
  \E r \in Handlers :
    /\ loc[r].created = "unique"
    /\ Cardinality(Rows(loc[r].hash)) = 1

\* archive tasks launched for hash h
TasksFor(h) == {t \in 1..Len(tasks) : tasks[t].hash = h}

\* two requests are in, or have just returned from, processEntry calls for
\* the same hash that both found no record
BothAbsent(r, q) ==
  /\ r # q
  /\ loc[r].hash = loc[q].hash
  /\ loc[r].obs = "absent" /\ loc[q].obs = "absent"

\* C3 as stated: of two concurrent processEntry calls for the same hash that
\* both observed "not exists", both insert and both launch an archive task.
C3_BothInsertAndLaunch ==
  \A r \in Handlers, q \in Handlers :
    (/\ BothAbsent(r, q)
     /\ loc[r].res \in {"nil", "err"} /\ loc[q].res \in {"nil", "err"}
     /\ loc[r].created # "io" /\ loc[q].created # "io")
      => /\ loc[r].created = "nil" /\ loc[q].created = "nil"
         /\ loc[r].task # 0 /\ loc[q].task # 0

\* C3: two concurrent processEntry calls for the same hash can both observe
\* "not exists" and both attempt the insert, but only one insert succeeds: the
\* other call gets the constraint error and returns it without marking,
\* launching or notifying, so at most one archive task is launched per hash.
C3_OneLaunchPerHash ==
  /\ \A h \in Hashes : Cardinality(TasksFor(h)) <= 1
  /\ \A r \in Handlers, q \in Handlers :
       BothAbsent(r, q) => ~(loc[r].created = "nil" /\ loc[q].created = "nil")
  /\ \A r \in Handlers :
       loc[r].created = "unique" => (loc[r].res = "err" /\ NoEffects(loc[r]))

\* both calls observed "not exists"; one inserted and launched, the other
\* was refused
C3_RaceLost ==
  \E r \in Handlers, q \in Handlers :
    /\ BothAbsent(r, q)
    /\ loc[r].created = "nil" /\ loc[r].task # 0
    /\ loc[q].created = "unique" /\ loc[q].res = "err"

\* C4: when the insert fails processEntry returns an error without marking
\* the entry as read, launching an archive task or notifying, and the loop of
\* HandleWebhook goes on to call processEntry for every remaining entry before
\* it responds.
C4_PersistFailureSkipsEntryOnly ==
  \A r \in Handlers :
    /\ loc[r].created \in {"unique", "io"}
         => (loc[r].res = "err" /\ hpc[r] = "loop" /\ NoEffects(loc[r]))
    /\ (hpc[r] = "loop" /\ todo[r] > 0) => ENABLED ExistsByHash(r)
    /\ hpc[r] = "done" => todo[r] = 0

\* an insert failed on a database error and an entry of the payload remains
C4_FailedWithEntriesLeft ==
  \E r \in Handlers :
    /\ loc[r].created = "io" /\ loc[r].res = "err"
    /\ hpc[r] = "loop" /\ todo[r] > 0

\* the stage of task t that ran last failed
Failed(t) == tasks[t].log # <<>> /\ tasks[t].log[Len(tasks[t].log)][2] = "err"

\* C5: the archive task is detached: processEntry never waits for it, so the
\* call can return and HandleWebhook can respond while the task runs, and
\* whatever the task does the call that launched it returns success and the
\* response is 200.
C5_TaskDetached ==
  \A r \in Handlers :
    /\ hpc[r] = "notify" => ENABLED SendEmbed(r)
    /\ (loc[r].task # 0 /\ loc[r].res # "run") => loc[r].res = "nil"
    /\ (hpc[r] = "loop" /\ left[r] = 0) => ENABLED Respond(r)
    /\ status[r] = (IF hpc[r] = "done" THEN StatusOK ELSE 0)

\* the response was written while one launched task has not run its first
\* stage and another has ended in a failure
C5_RespondedBeforeTaskEnd ==
  \E r \in Handlers, t \in 1..Len(tasks), u \in 1..Len(tasks) :
    /\ hpc[r] = "done" /\ status[r] = StatusOK
    /\ tasks[t].pc = "lookpath"
    /\ tasks[u].pc = "end" /\ Failed(u)

\* C6: with a notifier configured every newly persisted entry gets exactly
\* one notification attempt, made after the launch whatever the archive task
\* does, and a failed attempt does not make processEntry return an error;
\* without a notifier, and for entries not persisted, none is made.
C6_OneNotificationPerNewEntry ==
  /\ \A h \in Hashes :
       /\ notifs[h] <= Cardinality(Rows(h))
       /\ ~cfg.discord => notifs[h] = 0
  /\ \A r \in Handlers :
       /\ (loc[r].created = "nil" /\ loc[r].res # "run")
            => /\ loc[r].res = "nil"
               /\ loc[r].task # 0
               /\ notifs[loc[r].hash] = (IF cfg.discord THEN 1 ELSE 0)
               /\ cfg.discord <=> loc[r].notif \in {"nil", "err"}
       /\ hpc[r] = "notify" => ENABLED SendEmbed(r)
       /\ (hpc[r] = "done" /\ cfg.discord)
            => \A h \in Hashes : notifs[h] = Cardinality(Rows(h))

\* the notification of a persisted entry failed, its archive task has ended
\* in a failure, and the call returned success
C6_NotificationFailed ==
  \E r \in Handlers :
    /\ loc[r].created = "nil" /\ loc[r].notif = "err" /\ loc[r].res = "nil"
    /\ notifs[loc[r].hash] = 1
    /\ tasks[loc[r].task].pc = "end" /\ Failed(loc[r].task)

\* the download tool was not found on the PATH for task t
ToolMissing(t) == tasks[t].log # <<>> /\ tasks[t].log[1] = <<"lookpath", "err">>

\* C7: when the download tool cannot be resolved the archive task ends there:
\* the lookup is its only stage, the archive directory is not created, the
\* tool is not run, nothing is uploaded or cleaned up, and nothing is retried.
C7_ToolMissingEndsTask ==
  /\ \A t \in 1..Len(tasks) :
       ToolMissing(t) => /\ tasks[t].log = << <<"lookpath", "err">> >>
                         /\ tasks[t].pc = "end"
                         /\ tasks[t].fetched = {}
                         /\ ~ENABLED TaskStep(t)
  /\ \A h \in Hashes :
       (TasksFor(h) # {} /\ \A t \in TasksFor(h) : ToolMissing(t))
         => fs[h] = [exists |-> FALSE, files |-> {}]

\* a task ended at the failed lookup
C7_ToolMissing ==
  \E t \in 1..Len(tasks) :
    /\ ToolMissing(t) /\ tasks[t].pc = "end"
    /\ ~fs[tasks[t].hash].exists

\* C8: the stages of an archive task run in the order download, upload,
\* cleanup, each only after the one before it succeeded; the download tool is
\* run at most once per task, and when it fails the task ends with no upload,
\* no cleanup and no retry.
C8_StageOrder ==
  \A t \in 1..Len(tasks) :
    LET log == tasks[t].log
    IN  /\ Len(log) <= Len(Stages)
        /\ \A i \in 1..Len(log) : log[i][1] = Stages[i]
        /\ \A i \in 1..(Len(log) - 1) : log[i][2] = "nil"
        /\ Cardinality({i \in 1..Len(log) : log[i][1] = "exec"}) <= 1
        /\ tasks[t].pc \in {"end", Stages[IF Len(log) < Len(Stages) THEN Len(log) + 1 ELSE 1]}
        /\ (\E i \in 1..Len(log) : log[i] = <<"exec", "err">>)
             => (Len(log) = 3 /\ tasks[t].pc = "end" /\ ~ENABLED TaskStep(t))

\* one task ran download, upload and cleanup; another ended at a failed download
C8_FullRunAndFailedDownload ==
  \E t \in 1..Len(tasks), u \in 1..Len(tasks) :
    /\ Len(tasks[t].log) = 5 /\ tasks[t].pc = "end"
    /\ Len(tasks[u].log) = 3 /\ tasks[u].log[3] = <<"exec", "err">>

\* cleanupDirectory was called by task t, or is about to be
Cleans(t) ==
  \/ tasks[t].pc = "cleanup"
  \/ \E i \in 1..Len(tasks[t].log) : tasks[t].log[i][1] = "cleanup"

\* C9: cleanupDirectory is called only when cleanup-after-upload is enabled
\* and UploadFiles returned no error; in every other case the files the tool
\* downloaded stay in the archive directory.
C9_CleanupOnlyAfterUpload ==
  \A t \in 1..Len(tasks) :
    /\ Cleans(t) => /\ cfg.cleanup
                    /\ Len(tasks[t].log) >= 4
                    /\ tasks[t].log[4] = <<"upload", "nil">>
    /\ (Len(tasks[t].log) >= 3 /\ ~Cleans(t))
         => /\ fs[tasks[t].hash].exists
            /\ tasks[t].fetched \subseteq fs[tasks[t].hash].files

\* with cleanup enabled, one task's upload returned an error and its files
\* are still there, another's upload succeeded and its files were removed
C9_KeptAfterFailedUpload ==
  \E t \in 1..Len(tasks), u \in 1..Len(tasks) :
    /\ cfg.cleanup
    /\ Len(tasks[t].log) = 4 /\ tasks[t].log[4] = <<"upload", "err">>
    /\ tasks[t].pc = "end" /\ tasks[t].fetched # {}
    /\ tasks[t].fetched \subseteq fs[tasks[t].hash].files
    /\ Len(tasks[u].log) = 5 /\ tasks[u].log[5] = <<"cleanup", "nil">>
    /\ tasks[u].fetched # {} /\ fs[tasks[u].hash].files = {}

\* C10: once a getSettings call has fetched and stored the setting, the
\* stored value is never cleared, and every getSettings call that starts
\* afterwards returns the stored value at once without issuing a request.
C10_CachedSettingsReused ==
  [][/\ cache # "nil" => cache' # "nil"
     /\ \A g \in Callers :
          (gpc[g] = "idle" /\ gcalls'[g] > gcalls[g] /\ cache # "nil")
            => /\ gloc'[g].ret = cache
               /\ gpc'[g] = "idle"
               /\ requests' = requests
               /\ cache' = cache]_vars

\* a call returned the value another call had stored, after a single request
C10_ServedFromCache ==
  \E g \in Callers :
    /\ gpc[g] = "idle"
    /\ gloc[g].seen \in {"true", "false"}
    /\ gloc[g].ret = gloc[g].seen
    /\ requests = 1 /\ writes = 1

\* C11: a failed settings fetch writes nothing to the cache and ends the
\* getSettings call; the file of that uploadFile call is sent with the direct
\* strategy; and the caller's next uploadFile call, finding the cache still
\* empty, goes on to fetch the settings again.
C11_FetchFailureNotCached ==
  [][\A g \in Callers :
       /\ (Len(sent'[g]) > Len(sent[g]) /\ gloc[g].ret = "err")
            => sent'[g] = Append(sent[g], "direct")
       /\ (gpc[g] = "fetch" /\ gloc'[g].ret = "err")
            => (cache' = cache /\ writes' = writes /\ gpc'[g] = "idle")
       /\ (gpc[g] = "idle" /\ gcalls'[g] > gcalls[g]
             /\ gloc[g].ret = "err" /\ cache = "nil")
            => (gpc'[g] = "fetch" /\ gloc'[g].ret = "none")]_vars

\* a caller's first fetch failed, its file went out with the direct
\* strategy, and its second uploadFile call has sent the settings request again
C11_FetchedAgain ==
  \E g \in Callers :
    /\ \A q \in Callers \ {g} : gcalls[q] = 0
    /\ cache = "nil"
    /\ sent[g] = <<"direct">>
    /\ gcalls[g] = 2 /\ gpc[g] = "store" /\ requests = 2

\* the positions in the listing of the files eligible for upload
Eligible == {k \in 1..Len(up.listing) :
               ~up.listing[k].dir /\ IsSupportedFile(up.listing[k].name)}

\* C12: in uploadDirectoryFiles a failed upload does not stop the loop: the
\* eligible files are attempted one after another in listing order, each
\* exactly once, and once the directory was listed the call returns success
\* whatever the number of failed uploads.
C12_FailedUploadDoesNotStopLoop ==
  /\ \A j \in 1..Len(up.log) :
       /\ up.log[j].entry \in Eligible
       /\ j > 1 => up.log[j - 1].entry < up.log[j].entry
  /\ up.pc = "loop" => Len(up.log) = up.i - 1
  /\ (up.pc = "done" /\ up.res = "nil")
       => {up.log[j].entry : j \in 1..Len(up.log)} = Eligible
  /\ (up.pc = "done" /\ up.res = "err") => up.log = <<>>

\* the call returned success after three attempts, the first two failed
C12_ReturnedAfterFailures ==
  /\ up.pc = "done" /\ up.res = "nil"
  /\ Len(up.log) = 3
  /\ up.log[1].res = "err" /\ up.log[2].res = "err" /\ up.log[3].res = "uuid"

\* C13: uploads are named from the sanitized title: title+ext when exactly
\* one file is eligible; with k > 1 eligible files the i-th eligible file in
\* listing order is named title-i+ext, i being its position among the eligible
\* files whatever was skipped or failed before it.
C13_UploadNames ==
  \A j \in 1..Len(up.log) :
    LET k == up.log[j].entry
        pos == Cardinality({m \in Eligible : m <= k})
        t == SanitizeForPath(up.title)
        ext == Ext(up.listing[k].name)
    IN  up.log[j].name =
          IF Cardinality(Eligible) = 1 THEN t \o ext
          ELSE t \o <<"-">> \o Itoa(pos) \o ext

\* title "My Post": after a failed first upload and a skipped entry, the second
\* eligible file, third in the listing, is uploaded as My_Post-2.PNG
C13_SecondOfTwo ==
  /\ Len(up.log) = 2
  /\ up.log[1].res = "err"
  /\ up.log[2].entry = 3
  /\ up.log[2].name = <<"M", "y", "_", "P", "o", "s", "t", "-", "2", ".", "P", "N", "G">>

\* the stored entities named like name, up to case
Named(name) == {i \in 1..Len(remote) : EqualFold(remote[i].name, name)}

\* the positions of a search result whose name is name up to case
FoldMatches(result, name) ==
  {i \in 1..Len(result) : EqualFold(result[i].name, name)}

\* resolver r made two calls one after the other, for the same name up to
\* case, and nobody else resolved anything
TwiceInSequence(r) ==
  /\ \A q \in Resolvers \ {r} : rsv[q] = NoResolve
  /\ Len(rsv[r].log) = 2
  /\ EqualFold(rsv[r].log[1].name, rsv[r].log[2].name)

C15_BaseNeverRemoved ==
  cln.pc # "idle" => \A a \in Ancestors(Clean(cln.base)) : a \in cln.dirs

\* the same statement for the base directories whose configured value is the
\* path filepath.Join and filepath.Dir return for it, or that path followed by
\* a separator
C15_CleanBaseNeverRemoved ==
  (cln.pc # "idle" /\ cln.base \in {Clean(cln.base), Clean(cln.base) \o <<Slash>>})
    => \A a \in Ancestors(Clean(cln.base)) : a \in cln.dirs

\* the walk of a cleanup reached the base directory and removed it
C15_BaseRemoved ==
  /\ cln.pc = "done"
  /\ cln.base = DefaultArchiveDir
  /\ Clean(cln.base) \notin cln.dirs
  /\ cln.removed[Len(cln.removed)] = Clean(cln.base)
  /\ Dir(cln.base) \in cln.dirs

\* C16: given an archive directory that holds only regular files,
\* cleanupDirectory removes all of them, then the directory, then each
\* ancestor in turn if and only if it is empty at that moment, and stops at
\* the first ancestor that is not empty or at the base directory, which stay
\* in place with everything above them. (Stated for the calls in which no
\* removal was refused by the file system.)
C16_WalkStopsAtBase ==
  (/\ cln.pc = "done" /\ cln.ret = "nil" /\ ~cln.failed
   /\ cln.subs = 0
   /\ (cln.removed # <<>> \/ Clean(cln.dir) \in cln.dirs))
    => /\ cln.files = 0
       /\ cln.removed # <<>>
       /\ cln.removed[1] = Clean(cln.dir)
       /\ \A i \in 2..Len(cln.removed) : cln.removed[i] = Dir(cln.removed[i - 1])
       /\ \A a \in Ancestors(Clean(cln.base)) :
            a \in cln.dirs /\ a \notin Range(cln.removed)
       /\ LET stop == Dir(cln.removed[Len(cln.removed)])
          IN  stop = Clean(cln.base) \/ ~IsEmpty(cln, stop)

\* the same statement for the base directories of C15_CleanBaseNeverRemoved
C16_CleanBaseWalk ==
  cln.base \in {Clean(cln.base), Clean(cln.base) \o <<Slash>>}
    => C16_WalkStopsAtBase

\* C17: MarkEntryAsRead sends at most 5 requests; a request after the first
\* is sent only after a transport failure of the one before and a wait of
\* 2*k seconds after the k-th failed attempt, none after the 5th; the first
\* response ends the loop, and a status other than 204 is returned as an
\* error without another attempt. The call always terminates.
C17_BoundedRetries ==
  /\ [](/\ mk.sent <= MaxRetries
        /\ Len(mk.waits) <= MaxRetries - 1
        /\ \A k \in 1..Len(mk.waits) : mk.waits[k] = 2 * k
        /\ mk.status # 0 => mk.sent = Len(mk.waits) + 1
        /\ mk.pc = "done"
             => /\ mk.sent \in {Len(mk.waits), Len(mk.waits) + 1}
                /\ mk.status \notin {0, 204} => mk.ret = "err"
                /\ mk.status = 204 => mk.ret = "nil"
                /\ (mk.conf = "ok" /\ mk.status = 0)
                     => (mk.sent = 5 /\ mk.ret = "err"))
  /\ [][/\ mk'.sent > mk.sent
             => /\ mk'.sent = mk.sent + 1
                /\ mk.status = 0
                /\ Len(mk.waits) = mk.sent
        /\ mk.status # 0 => (mk'.sent = mk.sent /\ mk'.status = mk.status)
        /\ mk.pc = "done" => mk' = mk]_vars
  /\ <>(mk.pc = "done")

\* five transport failures in a row: four waits, then the error
C17_GaveUpAfterFive ==
  /\ mk.pc = "done" /\ mk.ret = "err"
  /\ mk.sent = 5
  /\ mk.waits = <<2, 4, 6, 8>>
  /\ mk.status = 0

\* the path of the documented example
ExamplePath ==
  <<"d", "a", "t", "a", "/", "a", "r", "c", "h", "i", "v", "e",
    "/", "J", "a", "n", "e", " ", "-", " ", "P", "a", "t", "r",
    "e", "o", "n", "/", "2", "0", "2", "4", "/", "0", "3", " ",
    "-", " ", "M", "a", "r", "c", "h", "/", "a", "b", "c", "1",
    "2", "3">>

\* C18: buildArchivePath always succeeds, changes nothing, returns the same
\* path for the same arguments, and its result is the base directory followed
\* by '<sanitized author> - <sanitized category>', the year in four digits,
\* '<month in two digits> - <English month name>' and the hash.
C18_ArchivePathShape ==
  /\ pf.pc = "sanitized"
       => Len(buildArchivePath(pf.base, pf.author, pf.category,
                               pf.year, pf.month, pf.hash)) > 0
  /\ pf.pc = "done" => pf.again = pf.path
  /\ pf.pc \in {"built", "done"}
       => LET e == Elements(pf.path)
              b == Elements(Clean(pf.base))
              n == Len(b)
          IN  /\ Len(e) = n + 4
              /\ SubSeq(e, 1, n) = b
              /\ e[n + 1] = SanitizeForPath(pf.author) \o <<" ", "-", " ">>
                              \o SanitizeForPath(pf.category)
              /\ IsNumeral(e[n + 2], 4) /\ Atoi(e[n + 2]) = pf.year
              /\ IsNumeral(SubSeq(e[n + 3], 1, 2), 2)
              /\ Atoi(SubSeq(e[n + 3], 1, 2)) = pf.month
              /\ SubSeq(e[n + 3], 3, Len(e[n + 3]))
                   = <<" ", "-", " ">> \o MonthNames[pf.month]
              /\ e[n + 4] = pf.hash
  /\ (/\ pf.pc = "done" /\ pf.base = DataArchive
      /\ pf.author = Jane /\ pf.category = Patreon
      /\ pf.year = 2024 /\ pf.month = 3 /\ pf.hash = Abc123)
       => pf.path = ExamplePath
  /\ posts = <<>> /\ tasks = <<>> /\ cache = "nil" /\ requests = 0
  /\ up = NoUpload /\ remote = <<>> /\ cln = NoCleanup /\ mk = NoMark

\* the documented example, built twice
C18_ExampleBuilt ==
  /\ pf.pc = "done"
  /\ pf.base = DataArchive
  /\ pf.author = Jane /\ pf.category = Patreon
  /\ pf.year = 2024 /\ pf.month = 3 /\ pf.hash = Abc123
  /\ pf.path = ExamplePath
  /\ pf.again = pf.path

\* the characters of [A-Za-z0-9_-]
AsciiKept == Range(UpperCase) \cup Range(LowerCase) \cup Range(Digits) \cup {"_", "-"}

\* C19 as stated: every character outside [A-Za-z0-9_-] is replaced by '_'.
C19_OnlyAsciiKept ==
  (pf.pc # "idle" /\ pf.pc # "start")
    => IF pf.author = <<>> THEN pf.sanitized = Unknown
       ELSE /\ Len(pf.sanitized) = Len(pf.author)
            /\ \A i \in 1..Len(pf.author) :
                 pf.sanitized[i] = IF pf.author[i] \in AsciiKept
                                     THEN pf.author[i] ELSE "_"

\* C19: SanitizeForPath maps the empty string to "unknown" and, for every
\* other input, returns a string of the same number of characters in which
\* every character that is a letter or a digit, of ASCII or not, or '_' or
\* '-' is kept and every other character is replaced by '_'.
C19_LettersAndDigitsKept ==
  (pf.pc # "idle" /\ pf.pc # "start")
    => IF pf.author = <<>> THEN pf.sanitized = Unknown
       ELSE /\ Len(pf.sanitized) = Len(pf.author)
            /\ \A i \in 1..Len(pf.author) :
                 pf.sanitized[i] = IF pf.author[i] \in AsciiKept \cup {"U+00E9", "U+0663"}
                                     THEN pf.author[i] ELSE "_"

\* a name made of a letter outside ASCII and a separator was sanitized
C19_AccentKeptSlashReplaced ==
  /\ pf.pc = "sanitized"
  /\ pf.author = <<"U+00E9", "/">>
  /\ pf.sanitized = <<"U+00E9", "_">>

\* C20: for an entry not seen before, processEntry runs its steps in the
\* order dedup check, persist, mark-as-read, launch of the archive task,
\* notification; the mark-as-read call, the launch and the notification are
\* made only by a call whose own persist succeeded, each at most once per call.
C20_FixedOrder ==
  /\ [](\A r \in Handlers :
          /\ loc[r].created # "no" => loc[r].obs = "absent"
          /\ loc[r].mark # "no" => loc[r].created = "nil"
          /\ loc[r].task # 0 => loc[r].mark # "no"
          /\ loc[r].notif # "no" => loc[r].task # 0)
  /\ [][\A r \in Handlers :
          (hpc'[r] # hpc[r] \/ loc'[r] # loc[r])
            => /\ Starts(r)
                    => /\ loc'[r].obs # "no" /\ loc'[r].created = "no"
                       /\ posts' = posts /\ marks' = marks
                       /\ tasks' = tasks /\ notifs' = notifs
               /\ posts' # posts
                    => /\ loc[r].obs = "absent" /\ loc[r].created = "no"
                       /\ loc'[r].created = "nil"
                       /\ posts' = Append(posts, loc[r].hash)
                       /\ marks' = marks /\ tasks' = tasks /\ notifs' = notifs
               /\ marks' # marks
                    => /\ loc[r].created = "nil" /\ loc[r].mark = "no"
                       /\ loc'[r].mark # "no"
                       /\ marks' = [marks EXCEPT ![loc[r].hash] = @ + 1]
                       /\ tasks' = tasks /\ notifs' = notifs
               /\ tasks' # tasks
                    => /\ loc[r].mark # "no" /\ loc[r].task = 0
                       /\ loc'[r].task = Len(tasks')
                       /\ tasks' = Append(tasks, NewTask(loc[r].hash))
                       /\ marks' = marks /\ notifs' = notifs
               /\ notifs' # notifs
                    => /\ loc[r].task # 0 /\ loc[r].notif = "no"
                       /\ loc'[r].notif # "no"
                       /\ notifs' = [notifs EXCEPT ![loc[r].hash] = @ + 1]
                       /\ marks' = marks /\ tasks' = tasks]_vars

\* one call went through every step, another ended at its refused insert
C20_FullCallAndRefusedCall ==
  \E r, q \in Handlers :
    /\ loc[r].created = "nil" /\ loc[r].mark # "no"
    /\ loc[r].task # 0 /\ loc[r].notif # "no" /\ loc[r].res = "nil"
    /\ loc[q].created \in {"unique", "io"} /\ loc[q].res = "err"
    /\ loc[q].mark = "no" /\ loc[q].task = 0 /\ loc[q].notif = "no"

\* C21: no step of the archive task reads or writes the dedup store: the
\* posts table is the same before and after every step of a task, so the
\* record of the task's hash is the one row stored before the launch,
\* whatever the outcome of the task.
C21_TaskLeavesStoreAlone ==
  /\ [](\A t \in TaskIds :
          t <= Len(tasks) => Cardinality(Rows(tasks[t].hash)) = 1)
  /\ [][\A t \in TaskIds :
          (t <= Len(tasks) /\ tasks'[t] # tasks[t]) => posts' = posts]_vars

\* a task ended at its failed download and another after its cleanup, and the
\* records of both are stored
C21_EndedTasksRecordsKept ==
  \E t, u \in TaskIds :
    /\ t <= Len(tasks) /\ u <= Len(tasks)
    /\ tasks[t].pc = "end" /\ tasks[u].pc = "end"
    /\ tasks[t].log[Len(tasks[t].log)] = <<"exec", "err">>
    /\ tasks[u].log[Len(tasks[u].log)][1] = "cleanup"
    /\ Rows(tasks[t].hash) # {} /\ Rows(tasks[u].hash) # {}

\* C22: when the mark-as-read call of a processEntry call fails, the call
\* still launches the archive task, still attempts the notification (when a
\* notifier is set) and returns success, and the record it persisted stays
\* in the posts table.
C22_MarkFailureIsNotFatal ==
  \A r \in Handlers :
    loc[r].mark = "err"
      => /\ Rows(loc[r].hash) # {}
         /\ hpc[r] \in {"launch", "notify", "loop", "done"}
         /\ hpc[r] = "launch" => loc[r].res = "run"
         /\ hpc[r] \notin {"launch"} => loc[r].task # 0
         /\ hpc[r] \notin {"launch", "notify"}
              => /\ loc[r].res = "nil"
                 /\ cfg.discord => loc[r].notif # "no"

\* a call returned success after its failed mark-as-read, with its task
\* launched and its notification attempted
C22_ReturnedAfterFailedMark ==
  \E r \in Handlers :
    /\ loc[r].mark = "err" /\ loc[r].res = "nil"
    /\ loc[r].task # 0 /\ loc[r].notif # "no"
    /\ Rows(loc[r].hash) # {}

\* the values of entry.PublishedAt that are timestamps in RFC3339
ValidStamps == {<<"2", "0", "2", "4", "-", "0", "3", "-", "1", "5", "T", "1", "0", ":", "0", "0", ":", "0", "0", "Z">>,
                <<"2", "0", "2", "3", "-", "1", "2", "-", "3", "1", "T", "2", "3", ":", "5", "9", ":", "5", "9", "+", "0", "9", ":", "0", "0">>}

\* C23: when the publish timestamp of the entry is not valid RFC3339,
\* processEntry does not fail: publishedAt is the current time read at that
\* point, the record is persisted with it, and the archive task is launched
\* with that same time, which gives the year and month of its archive path.
C23_InvalidTimeReplacedByNow ==
  /\ pe.pc \notin {"idle", "parse"}
       => /\ pe.parsed = "nil" <=> pe.input \in ValidStamps
          /\ pe.parsed = "err" => (pe.publishedAt = NowAt(pe.readAt)
                                   /\ pe.readAt <= pe.tick)
          /\ pe.input = <<"2", "0", "2", "4", "-", "0", "3", "-", "1", "5", "T", "1", "0", ":", "0", "0", ":", "0", "0", "Z">>
               => pe.publishedAt = [year |-> 2024, month |-> 3]
          /\ pe.input = <<"2", "0", "2", "3", "-", "1", "2", "-", "3", "1", "T", "2", "3", ":", "5", "9", ":", "5", "9", "+", "0", "9", ":", "0", "0">>
               => pe.publishedAt = [year |-> 2023, month |-> 12]
  /\ pe.res = "err" => pe.created = "err"
  /\ pe.created = "nil" => pe.post = pe.publishedAt
  /\ pe.pc = "done" => pe.res # "run"
  /\ (pe.pc = "done" /\ pe.created = "nil")
       => /\ pe.res = "nil"
          /\ pe.taskAt = pe.post
          /\ Elements(pe.dir)[4] = Pad(pe.publishedAt.year, 4)
          /\ SubSeq(Elements(pe.dir)[5], 1, 2) = Pad(pe.publishedAt.month, 2)

\* an entry without a publish time, handled across the turn of the year: the
\* record and the archive path carry December 2024, read before the persist,
\* while the clock shows 2025 at the launch
C23_SubstitutedTimeKept ==
  /\ pe.pc = "done" /\ pe.res = "nil"
  /\ pe.input = <<>>
  /\ pe.parsed = "err" /\ pe.readAt = 0 /\ pe.tick = 2
  /\ pe.post = [year |-> 2024, month |-> 12]
  /\ pe.dir = DataArchive \o 
      <<"/", "J", "a", "n", "e", " ", "-", " ", "P", "a", "t", "r",
        "e", "o", "n", "/", "2", "0", "2", "4", "/", "1", "2", " ",
        "-", " ", "D", "e", "c", "e", "m", "b", "e", "r", "/", "a",
        "b", "c", "1", "2", "3">>

\* C24: in any interleaving of concurrent getSettings calls the cache is
\* written only on the first populate: at most once per process, and a
\* cached value never changes.
C24_CacheWrittenOnce ==
  /\ [](writes <= 1)
  /\ [][cache # "nil" => cache' = cache]_vars

\* two calls found the cache empty and each stored what it fetched: the
\* value stored by one of them was replaced by the other's
C24_CacheOverwritten ==
  \E g \in Callers :
    /\ writes = 2
    /\ gpc[g] = "idle"
    /\ gloc[g].seen = "nil"
    /\ gloc[g].ret \in {"true", "false"}
    /\ cache \in {"true", "false"}
    /\ gloc[g].ret # cache

\* C25: uploadFile queries the settings for each file and selects the
\* strategy from the result: the signed-URL strategy if and only if the
\* setting was obtained and is true, the direct strategy if it is false or
\* was not obtained; exactly one strategy is run per file, whatever it
\* returns, and the next file starts with a settings query of its own.
C25_OneStrategyPerFile ==
  /\ [](\A g \in Callers :
          /\ Len(sent[g]) <= gcalls[g]
          /\ gcalls[g] <= Len(sent[g]) + 1)
  /\ [][\A g \in Callers :
          /\ sent'[g] # sent[g]
               => /\ gpc[g] = "idle"
                  /\ gloc[g].ret \in {"true", "false", "err"}
                  /\ Len(sent'[g]) = gcalls[g]
                  /\ \E st \in {"s3", "direct"} :
                       /\ sent'[g] = Append(sent[g], st)
                       /\ st = "s3" <=> gloc[g].ret = "true"
                       /\ st = "direct" <=> gloc[g].ret \in {"false", "err"}
          /\ gcalls'[g] > gcalls[g]
               => /\ Len(sent[g]) = gcalls[g]
                  /\ gloc'[g].ret \in {"none", cache}]_vars

\* a caller's first file went out directly after a failed settings query,
\* its second through a signed URL once the setting was obtained as true
C25_DirectThenSigned ==
  \E g \in Callers :
    /\ sent[g] = <<"direct", "s3">>
    /\ cache = "true"

\* C26: the signed-URL strategy requests a signed target, PUTs the bytes to
\* it, then calls process-upload with the identifier the first step
\* returned; a step runs only if every earlier step succeeded, and a failure
\* at a step fails the upload with no later step run, so process-upload is
\* never called for bytes that were not stored.
C26_SignedStepsInOrder ==
  /\ \E n \in 0..3 : s3.requests = SubSeq(<<"sign", "put", "process">>, 1, n)
  /\ s3.put # "no" => s3.sign = "nil"
  /\ s3.proc # "no" => (s3.put = "nil" /\ s3.stored /\ s3.sentIdent = s3.ident)
  /\ s3.stored => s3.put = "nil"
  /\ s3.sign = "err" => (s3.pc = "done" /\ s3.ret = "err" /\ s3.requests = <<"sign">>)
  /\ s3.put = "err" => (s3.pc = "done" /\ s3.ret = "err" /\ Len(s3.requests) <= 2)
  /\ s3.proc = "err" => (s3.pc = "done" /\ s3.ret = "err")
  /\ s3.ret = "nil" => (s3.pc = "done" /\ Len(s3.requests) = 3)

\* the PUT was refused: the upload failed after two requests and nothing was
\* processed
C26_FailedPutEndsUpload ==
  /\ s3.pc = "done" /\ s3.ret = "err"
  /\ s3.requests = <<"sign", "put">>
  /\ s3.put = "err" /\ ~s3.stored /\ s3.proc = "no"

\* the identifier C27 expects for a response: the nested one, else the
\* top-level one, else the one of the first element of the list
Preferred(resp) ==
  IF resp.file \notin {"absent", ""} THEN resp.file
  ELSE IF resp.uuid \notin {"absent", ""} THEN resp.uuid
  ELSE IF Len(resp.files) > 0 /\ resp.files[1] \notin {"absent", ""}
    THEN resp.files[1]
  ELSE ""

\* C27: processUpload takes the file identifier from the response with the
\* priority nested file object, top-level identifier, first element of the
\* file list; when none yields a non-empty identifier it returns an error,
\* so a successful signed-URL upload carries a non-empty file identifier.
C27_IdentifierPriority ==
  /\ s3.proc = "answered"
       => /\ s3.uuid = Preferred(s3.resp)
          /\ s3.ret = "nil" <=> s3.uuid # ""
          /\ s3.ret = "err" <=> Preferred(s3.resp) = ""
  /\ s3.ret = "nil" => s3.uuid \in {"u-nested", "u-top", "u-list"}

\* an empty nested identifier and no top-level one: the identifier of the
\* first element of the list is returned
C27_TakenFromList ==
  /\ s3.pc = "done" /\ s3.ret = "nil"
  /\ s3.resp = [file |-> "", uuid |-> "absent", files |-> <<"u-list", "u-second">>]
  /\ s3.uuid = "u-list"

\* C28: for each eligible file a tag-attach request is made exactly when a
\* tag identifier was resolved and the file's upload returned a non-empty
\* file identifier, whichever strategy ran; none is made for a file whose
\* upload failed, nor for a direct upload answered without an identifier; a
\* failed tag-attach does not stop the remaining files nor change the result.
C28_TagAfterIdentifiedUpload ==
  /\ \A j \in 1..Len(up.log) :
       /\ up.log[j].tag # "no" <=> (up.tag # "" /\ up.log[j].res = "uuid")
       /\ up.log[j].res = "err" => up.log[j].tag = "no"
  /\ up.pc = "loop" => Len(up.log) = up.i - 1
  /\ (up.pc = "done" /\ up.listed = "nil")
       => /\ up.res = "nil"
          /\ {up.log[j].entry : j \in 1..Len(up.log)} = Eligible

\* C28 as stated: a tag-attach request is made exactly when a tag identifier
\* was resolved and the file's upload succeeded (returned no error).
C28_TagWheneverUploadSucceeded ==
  \A j \in 1..Len(up.log) :
    up.log[j].tag # "no" <=> (up.tag # "" /\ up.log[j].res # "err")

\* with a tag resolved: a first file whose tag-attach failed, a second
\* uploaded directly without an identifier and left untagged, a third
\* uploaded through the signed URL and tagged, and success returned
C28_FailedAttachThenTagged ==
  /\ up.pc = "done" /\ up.res = "nil"
  /\ up.tag = "tag-1"
  /\ Len(up.log) = 3
  /\ up.log[1].res = "uuid" /\ up.log[1].tag = "err"
  /\ up.log[2].res = "empty" /\ up.log[2].tag = "no"
  /\ up.log[3].res = "uuid" /\ up.log[3].tag = "nil"
  /\ up.via = "s3"

\* C29: when the tag resolution fails in UploadFiles the directory upload
\* goes on: every eligible file is uploaded with the resolved album, no
\* tag-attach request is made, and the result is the one of the directory
\* upload, nil unless the listing failed.
C29_TagFailureNotFatal ==
  up.tagErr = "err"
    => /\ up.tag = ""
       /\ up.albumErr = "nil"
       /\ \A j \in 1..Len(up.log) :
            up.log[j].tag = "no" /\ up.log[j].album = up.album
       /\ up.pc = "done"
            => /\ up.listed # "none"
               /\ up.res = (IF up.listed = "nil" THEN "nil" ELSE "err")
               /\ up.listed = "nil"
                    => {up.log[j].entry : j \in 1..Len(up.log)} = Eligible

\* the tag resolution failed and the call returned nil after uploading two
\* files, which were given identifiers and no tag
C29_UploadedWithoutTag ==
  /\ up.tagErr = "err"
  /\ up.pc = "done" /\ up.res = "nil"
  /\ Len(up.log) = 2
  /\ \A j \in 1..2 : up.log[j].res = "uuid" /\ up.log[j].tag = "no"

\* the regular files of the listing whose lower-cased extension is allowed
AllowListed ==
  {k \in 1..Len(up.listing) :
     ~up.listing[k].dir /\ ToLower(Ext(up.listing[k].name)) \in SupportedExts}

\* C30: uploadDirectoryFiles uploads the regular files whose extension, in
\* any case, is in the allow-list and nothing else; with no such file it
\* returns nil without a settings, upload or tag request; when the listing
\* fails it returns an error and uploads nothing.
C30_OnlyAllowListedFiles ==
  /\ \A j \in 1..Len(up.log) : up.log[j].entry \in AllowListed
  /\ (up.pc = "done" /\ up.res = "nil")
       => {up.log[j].entry : j \in 1..Len(up.log)} = AllowListed
  /\ (up.listed = "nil" /\ AllowListed = {})
       => up.pc = "done" /\ up.res = "nil" /\ up.log = <<>> /\ ~up.asked
  /\ up.listed = "err"
       => up.pc = "done" /\ up.res = "err" /\ up.log = <<>> /\ ~up.asked

\* a subdirectory named like an image, a .PNG file and a .txt file: the
\* .PNG file alone was uploaded, after a settings request
C30_UpperCaseUploadedRestSkipped ==
  /\ up.pc = "done" /\ up.res = "nil"
  /\ Len(up.listing) = 3
  /\ up.listing[1].dir /\ Ext(up.listing[1].name) = Jpg
  /\ ~up.listing[2].dir /\ Ext(up.listing[2].name) = PngUpper
  /\ ~up.listing[3].dir /\ Ext(up.listing[3].name) = Txt
  /\ Len(up.log) = 1 /\ up.log[1].entry = 2 /\ up.log[1].res = "uuid"
  /\ up.asked

\* C31: the search and the create of getOrCreateAlbum / getOrCreateTag are
\* two requests with nothing between them: a call that found no entity of
\* its name issues its create whatever was stored since its search, and the
\* create stores a new entity; so two calls for one name that both searched
\* an empty store leave two entities of that name.
C31_CreateAfterStaleSearch ==
  [][\A r \in Resolvers :
       (rsv[r].pc = "create" /\ rsv'[r].pc = "idle"
          /\ rsv'[r].log[Len(rsv'[r].log)].err = "nil")
         => /\ rsv'[r].log[Len(rsv'[r].log)].found = 0
            /\ Len(remote') = Len(remote) + 1
            /\ remote'[Len(remote')].name = rsv[r].name
            /\ rsv'[r].log[Len(rsv'[r].log)].id = Len(remote')]_vars

\* two calls for "Foo", started on an empty store, both found nothing and
\* both created: the store holds two entities named "Foo"
C31_TwoEntitiesOneName ==
  /\ Len(remote) = 2
  /\ remote[1].name = Foo /\ remote[2].name = Foo
  /\ \A r \in Resolvers :
       /\ rsv[r].pc = "idle" /\ Len(rsv[r].log) = 1
       /\ rsv[r].log[1].name = Foo /\ rsv[r].log[1].found = 0
       /\ rsv[r].log[1].creates = 1 /\ rsv[r].log[1].err = "nil"
  /\ rsv[1].log[1].id # rsv[2].log[1].id

\* C32: cleanupDirectory on a directory that does not exist returns nil and
\* changes nothing in the file system: no file deleted, no directory removed,
\* no ancestor visited; so a second call after a cleanup that removed the
\* directory is a no-op.
C32_MissingDirectoryNoOp ==
  [][(cln.pc = "stat" /\ Clean(cln.dir) \notin cln.dirs /\ cln'.pc # "stat")
       => /\ cln'.pc = "done" /\ cln'.ret = "nil"
          /\ cln'.dirs = cln.dirs /\ cln'.removed = cln.removed
          /\ cln'.files = cln.files /\ cln'.subs = cln.subs
          /\ cln'.failed = cln.failed]_vars

\* a first call removed two files, the directory and its empty ancestors; the
\* second call on the same directory returned nil and removed nothing more
C32_SecondCallReturned ==
  /\ cln.calls = 2 /\ cln.pc = "done" /\ cln.ret = "nil"
  /\ cln.filesRemoved = 2
  /\ cln.removed # <<>> /\ cln.removed[1] = Clean(cln.dir)
  /\ Clean(cln.dir) \notin cln.dirs
  /\ cln.cur = <<>>

\* C33: cleanupDirectory deletes only regular files directly inside the
\* directory: its subdirectories and what they hold stay; the directory stays
\* when a subdirectory or an undeletable file is left in it; and once the
\* directory was listed the call returns nil, whatever removal failed.
C33_OnlyDirectRegularFiles ==
  /\ [](/\ (cln.subs > 0 \/ cln.files > 0) /\ cln.removed = <<>>
             => (cln.pc = "idle" \/ Clean(cln.dir) \in cln.dirs)
        /\ (cln.pc = "done" /\ cln.failed /\ cln.calls = 1) => cln.ret = "nil")
  /\ [][/\ cln'.subs = cln.subs /\ cln'.inner = cln.inner
        /\ cln'.files \in {cln.files, cln.files - 1}
        /\ cln'.files # cln.files => cln'.filesRemoved = cln.filesRemoved + 1
        /\ cln.pc \in {"files", "parents"} => cln'.ret # "err"
        /\ (Clean(cln.dir) \in cln.dirs /\ Clean(cln.dir) \notin cln'.dirs)
             => cln.subs = 0 /\ cln.files = 0]_vars

\* two regular files and a subdirectory: one file was deleted, the other
\* could not be, the subdirectory was passed over; the directory is still
\* there and the call returned nil
C33_KeptWithSubdirectory ==
  /\ cln.calls = 1 /\ cln.pc = "done" /\ cln.ret = "nil"
  /\ cln.filesRemoved = 1 /\ cln.files = 1 /\ cln.failed
  /\ cln.subs = 1 /\ cln.inner = 1
  /\ Clean(cln.dir) \in cln.dirs /\ cln.removed = <<>>

\* the archive tasks that have not ended
InFlight == {t \in 1..Len(tasks) : tasks[t].pc # "end"}

\* C34: nothing caps the archive tasks: a processEntry call that reached its
\* launch starts the task whatever the number of tasks in flight, and every
\* task in flight can take its next step whatever the others are doing; so a
\* batch of N new entries can have N tasks in flight, their steps interleaved
\* in any order.
C34_NoCapOnTasks ==
  /\ \A r \in Handlers : hpc[r] = "launch" => ENABLED Launch(r)
  /\ \A t \in InFlight : ENABLED TaskStep(t)

\* a batch of MaxBatch entries with distinct hashes: as many tasks are in
\* flight, each at its tool run or its upload, the second ahead of the first
C34_AllTasksInFlight ==
  /\ Len(tasks) = MaxBatch
  /\ InFlight = 1..MaxBatch
  /\ \A t \in InFlight, u \in InFlight : t # u => tasks[t].hash # tasks[u].hash
  /\ \A t \in InFlight : tasks[t].pc \in {"exec", "upload"}
  /\ tasks[1].pc = "exec" /\ tasks[2].pc = "upload"

\* the files the upload loop uploaded with success
Uploaded == {up.log[j].entry : j \in {i \in 1..Len(up.log) : up.log[i].res # "err"}}

\* C35: with cleanup-after-upload enabled, an archive task deletes a local
\* file only if that file was uploaded successfully; a file whose upload
\* failed, or which was skipped as non-eligible, is never removed.
C35_DeletedOnlyIfUploaded ==
  up.deleted \subseteq Uploaded

\* an image whose upload failed and a .txt file that was skipped: UploadFiles
\* returned nil and the cleanup deleted both
C35_DeletedWithoutUpload ==
  /\ up.pc = "end" /\ up.cleaned = "nil" /\ cfg.cleanup
  /\ Len(up.listing) = 2
  /\ ~up.listing[1].dir /\ Ext(up.listing[1].name) = Jpg
  /\ ~up.listing[2].dir /\ Ext(up.listing[2].name) = Txt
  /\ Len(up.log) = 1 /\ up.log[1].entry = 1 /\ up.log[1].res = "err"
  /\ up.deleted = {1, 2}

\* C37: when the remote asset service is not configured, the download is
\* followed by no album or tag resolution, no listing, no settings, upload or
\* tag request and no cleanup, even with cleanup-after-upload enabled: the
\* downloaded files stay.
C37_NotConfiguredNothingDone ==
  ~cfg.chibisafe
    => /\ up.pc \in {"idle", "task", "end"}
       /\ up.albumErr = "none" /\ up.tagErr = "none" /\ up.listed = "none"
       /\ up.log = <<>> /\ ~up.asked
       /\ up.cleaned = "none" /\ up.deleted = {}

\* no uploader, cleanup-after-upload enabled: the task ended and the two
\* files of the directory are still there
C37_EndedWithFilesKept ==
  /\ ~cfg.chibisafe /\ cfg.cleanup
  /\ up.pc = "end"
  /\ RegularFiles(up.listing) = {1, 2}
  /\ up.deleted = {}

\* C39: when the album resolution fails UploadFiles returns an error without
\* resolving the tag, listing the directory or uploading a file, and the
\* archive task calls no cleanup: every downloaded file stays.
C39_AlbumFailureEndsTask ==
  up.albumErr = "err"
    => /\ up.pc \in {"done", "end"}
       /\ up.res = "err"
       /\ up.tagErr = "none" /\ up.tag = "" /\ up.listed = "none"
       /\ up.log = <<>> /\ ~up.asked
       /\ up.pc = "end" => up.cleaned = "skipped"
       /\ up.deleted = {}

\* cleanup-after-upload enabled, the album resolution failed: the task ended
\* without a cleanup, its two files in place
C39_EndedAfterAlbumFailure ==
  /\ cfg.cleanup /\ cfg.chibisafe
  /\ up.albumErr = "err" /\ up.pc = "end" /\ up.cleaned = "skipped"
  /\ RegularFiles(up.listing) = {1, 2}
  /\ up.deleted = {}

\* C36: the cleanup of one entry leaves the archive directory of an entry
\* with another hash alone, however the two tasks interleave: it deletes no
\* file in it, does not remove it, and removes no directory above it while
\* that directory holds it.
C36_OtherEntryUntouched ==
  /\ [](cln.ofiles > 0 => Ancestors(cln.other) \subseteq cln.dirs)
  /\ [][/\ cln'.ofiles >= cln.ofiles
        /\ cln.other \in cln.dirs => cln.other \in cln'.dirs]_vars

\* the cleanup removed its own directory and stopped at the month directory,
\* where the other entry's directory and file are
C36_StoppedAtSharedMonth ==
  /\ cln.pc = "done" /\ cln.ret = "nil" /\ cln.calls = 1
  /\ cln.removed = <<Clean(cln.dir)>>
  /\ cln.cur = Dir(cln.other)
  /\ cln.other \in cln.dirs /\ cln.ofiles = 1
  /\ cln.failed

\* number of positions of sequence q that hold h
Times(q, h) == Cardinality({i \in 1..Len(q) : q[i] = h})

\* entries of the payload that carry hash h
BatchCalls(h) == {i \in 1..Len(hb.payload) : hb.payload[i] = h}

\* C38: within one HandleWebhook call the entries are processed one after
\* another in payload order: the dedup check of an entry starts only when
\* the processEntry call of every earlier entry has returned, its persist,
\* mark-as-read, launch and notification with the pause done; so a hash
\* that occurs twice in the batch is never refused by the UNIQUE constraint,
\* gets one row and one archive task, and exactly one of each when no
\* database call failed.
C38_EntriesOneAfterAnother ==
  /\ hb.checks = [k \in 1..Len(hb.checks) |-> k]
  /\ \A i \in 1..Len(hb.calls) :
       /\ hb.calls[i].created # "unique"
       /\ hb.calls[i].pc # "wait" =>
            \A j \in 1..(i - 1) :
              /\ hb.calls[j].pc = "returned"
              /\ hb.calls[j].created = "nil" =>
                   hb.calls[j].mark # "no" /\ hb.calls[j].launched
              /\ hb.calls[j].notif = "nil" => hb.calls[j].paused
  /\ \A h \in Hashes :
       /\ Times(hb.rows, h) <= 1
       /\ Times(hb.launches, h) <= 1
       /\ Times(hb.launches, h) =
            Cardinality({i \in BatchCalls(h) : hb.calls[i].launched})
       /\ ( /\ hb.pc = "done"
            /\ BatchCalls(h) # {}
            /\ \A i \in BatchCalls(h) :
                 hb.calls[i].obs # "err" /\ hb.calls[i].created # "io" )
          => /\ Times(hb.rows, h) = 1
             /\ \/ Times(hb.launches, h) = 1
                \/ hb.calls[CHOOSE i \in BatchCalls(h) :
                              \A j \in BatchCalls(h) : i <= j].obs = "present"

\* a batch holding h1 twice answered: the first call stored it, launched its
\* task, notified and paused; the second found the row and did nothing
C38_SameHashTwiceArchivedOnce ==
  /\ hb.pc = "done"
  /\ hb.payload = <<"h1", "h1">>
  /\ hb.checks = <<1, 2>>
  /\ hb.calls[1].created = "nil" /\ hb.calls[1].paused
  /\ hb.calls[2].obs = "present" /\ ~hb.calls[2].launched
  /\ hb.rows = <<"h1">> /\ hb.launches = <<"h1">>

====
